---- MODULE Spec2Model ----
(***************************************************************************)
(* A model of qBandas: the value packers (qbandas/pack.py, qbandas/_pack.py *)
(* and the older parsers.py), transform / payloads / full_transform        *)
(* (qbandas/__init__.py) and upload (qbandas/upload.py).                   *)
(*                                                                         *)
(* Python values are records whose field name is their type, so that two  *)
(* values of different types are different and never equal:               *)
(*    None              [none |-> TRUE]                                    *)
(*    a number          [neg, whole, tenth]: sign, integer part and first  *)
(*                      decimal  (8.3 is [neg |-> FALSE, whole |-> 8,      *)
(*                      tenth |-> 3]); zero is never negative              *)
(*    a bool            [bool |-> b]                                       *)
(*    a str             [str |-> <<c1, ..., ck>>], one string per char    *)
(*    a datetime        [dt |-> [Y, m, d, H, M, S, f]]                     *)
(*    the dict {'value': V}   [value |-> V]                                *)
(* A raised exception is [raised |-> kind, col |-> column name or ""].     *)
(***************************************************************************)
EXTENDS Integers, Sequences, FiniteSets, TLC

VARIABLES
    mode,       \* which entry point this run exercises
    pc,         \* position inside the entry point
    df,         \* the dataframe: a sequence of [name, cells]
    col_types,  \* transform's col_types: column name -> declaration
    fids,       \* payloads' fids: column name -> field id
    size,       \* payloads' size / upload's Payload-Size
    schema,     \* full_transform's schema / upload's schema file
    packed,     \* transform's out / upload's packed_df
    result,     \* what the entry point returned or raised
    call,       \* packer run: the packer, its raw value and its argument
    applied,    \* the packer applications so far: <<column, row>>, in order
    posts,      \* upload: the request bodies posted so far, in order
    statuses,   \* upload: the HTTP status of each posted request
    records,    \* upload: the record list built from packed_df
    kwargs,     \* upload: the keyword arguments drop and Payload-Size
    responses,  \* upload(df, schema, info): its list out, one entry per payload
    last,       \* upload(df, schema, info): its local r, the last response bound
    info,       \* upload(df, schema, info): the caller's info dict
    header_file,    \* headers: the content of headers.json in the directory
    profile_files,  \* profiles: file name -> content, the profiles directory
    supplied,       \* profiles: name -> the arguments last supplied for the profile
    schema_file,    \* schema.py: the content of schemas/<schema_name>.json
    table_file      \* schemas.py: the content of schemas/<table_name>.json

\* the variables of transform, payloads, full_transform and the uploads
frames == <<df, col_types, fids, size, schema, packed, applied, posts, statuses, records,
            kwargs, responses, last, info>>
\* the variables of headers and profiles
files == <<header_file, profile_files, supplied, schema_file, table_file>>

vars == <<mode, pc, result, call, frames, files>>

-----------------------------------------------------------------------------
(* Python values *)

None == [none |-> TRUE]
Abs(n) == IF n < 0 THEN -n ELSE n
\* the number t/10
Num(t) == [neg |-> t < 0, whole |-> Abs(t) \div 10, tenth |-> Abs(t) % 10]
\* the integer k
Whole(k) == [neg |-> k < 0, whole |-> Abs(k), tenth |-> 0]
Bool(b) == [bool |-> b]
Str(s) == [str |-> s]
Dt(Y, m, d, H, M, S, f) == [dt |-> [Y |-> Y, m |-> m, d |-> d, H |-> H, M |-> M, S |-> S, f |-> f]]
Raise(kind) == [raised |-> kind, col |-> ""]
RaiseCol(kind, c) == [raised |-> kind, col |-> c]

IsNone(x) == DOMAIN x = {"none"}
IsNum(x) == DOMAIN x = {"neg", "whole", "tenth"}
IsBool(x) == DOMAIN x = {"bool"}
IsStr(x) == DOMAIN x = {"str"}
IsDt(x) == DOMAIN x = {"dt"}
IsDict(x) == DOMAIN x = {"value"}
IsRaise(x) == DOMAIN x = {"raised", "col"}

\* a file that is not there
Absent == [absent |-> TRUE]
\* no header file, no profile, no call made
NoFiles ==
    /\ header_file = Absent /\ profile_files = <<>> /\ supplied = <<>>
    /\ schema_file = Absent /\ table_file = Absent

\* a local name that no assignment has bound yet
Unbound == [unbound |-> TRUE]
\* no result yet, and no packer called yet
Pending == [pending |-> TRUE]
NoCall == [f |-> "", x |-> None, unit |-> "", format |-> <<>>]

\* pd.isna on a scalar: None, NaN, pd.NA and NaT are one null value here
isna(x) == IsNone(x)

-----------------------------------------------------------------------------
(* str helpers *)

Digits == {"0", "1", "2", "3", "4", "5", "6", "7", "8", "9"}

\* the characters str.isnumeric accepts: the decimal digits and the other
\* characters with a Unicode numeric value, of which the vulgar fraction
\* one half stands here
VulgarHalf == "1/2"
NumericChars == Digits \cup {VulgarHalf}

DigitVal(c) == CASE c = "0" -> 0 [] c = "1" -> 1 [] c = "2" -> 2 [] c = "3" -> 3
                 [] c = "4" -> 4 [] c = "5" -> 5 [] c = "6" -> 6 [] c = "7" -> 7
                 [] c = "8" -> 8 [] c = "9" -> 9
DigitChar(n) == CASE n = 0 -> "0" [] n = 1 -> "1" [] n = 2 -> "2" [] n = 3 -> "3"
                  [] n = 4 -> "4" [] n = 5 -> "5" [] n = 6 -> "6" [] n = 7 -> "7"
                  [] n = 8 -> "8" [] n = 9 -> "9"

\* str.isnumeric(): non-empty and every character numeric
isnumeric(y) == Len(y) > 0 /\ \A i \in 1..Len(y) : y[i] \in NumericChars
AllDigits(y) == \A i \in 1..Len(y) : y[i] \in Digits

\* y[a:b] with 0 <= a <= b, Python's clipping slice
Slice(y, a, b) == SubSeq(y, a + 1, IF b < Len(y) THEN b ELSE Len(y))

RECURSIVE DigitsToInt(_)
DigitsToInt(s) == IF s = <<>> THEN 0
                  ELSE 10 * DigitsToInt(SubSeq(s, 1, Len(s) - 1)) + DigitVal(s[Len(s)])

RECURSIVE NatToDigits(_)
NatToDigits(n) == IF n < 10 THEN <<DigitChar(n)>>
                  ELSE Append(NatToDigits(n \div 10), DigitChar(n % 10))

\* zero-padded to at least w characters, as %02d / strftime do
RECURSIVE Pad(_, _)
Pad(s, w) == IF Len(s) >= w THEN s ELSE Pad(<<"0">> \o s, w)

-----------------------------------------------------------------------------
(* int(x), datetime.strptime and datetime.strftime *)

\* int() of a number truncates toward zero
Trunc(x) == IF x.neg THEN -x.whole ELSE x.whole

\* int(x): an integer, or the exception int() raises
int(x) ==
    IF IsNum(x) THEN Whole(Trunc(x))
    ELSE IF IsBool(x) THEN Whole(IF x.bool THEN 1 ELSE 0)
    ELSE IF IsStr(x) THEN
        IF Len(x.str) > 0 /\ AllDigits(x.str) THEN Whole(DigitsToInt(x.str))
        ELSE IF Len(x.str) > 1 /\ x.str[1] = "-" /\ AllDigits(Tail(x.str))
             THEN Whole(-DigitsToInt(Tail(x.str)))
        ELSE Raise("ValueError")
    ELSE Raise("TypeError")

\* a format is a sequence of tokens: a directive or one literal character
Directives == {"%Y", "%m", "%d", "%H", "%M", "%S", "%f"}
BadDirectives == {"%Q"}

\* the widths a directive's regular expression tries, in its order of preference
Widths(tok) == CASE tok = "%Y" -> <<4>>
                 [] tok = "%f" -> <<6, 5, 4, 3, 2, 1>>
                 [] OTHER -> <<2, 1>>

\* the values the w-character alternative of a directive accepts
InRange(tok, w, v) ==
    CASE tok = "%Y" -> TRUE
      [] tok = "%f" -> TRUE
      [] tok = "%m" -> IF w = 2 THEN v \in 1..12 ELSE v \in 1..9
      [] tok = "%d" -> IF w = 2 THEN v \in 1..31 ELSE v \in 1..9
      [] tok = "%H" -> IF w = 2 THEN v \in 0..23 ELSE TRUE
      [] tok = "%M" -> IF w = 2 THEN v \in 0..59 ELSE TRUE
      [] tok = "%S" -> IF w = 2 THEN v \in 0..61 ELSE TRUE

StrpDefault == [Y |-> 1900, m |-> 1, d |-> 1, H |-> 0, M |-> 0, S |-> 0, f |-> 0]
NoMatch == [ok |-> FALSE, acc |-> StrpDefault, rest |-> <<>>]

RECURSIVE RPad(_, _)
RPad(s, w) == IF Len(s) >= w THEN s ELSE RPad(s \o <<"0">>, w)

StrpSet(acc, tok, digits) ==
    CASE tok = "%Y" -> [acc EXCEPT !.Y = DigitsToInt(digits)]
      [] tok = "%m" -> [acc EXCEPT !.m = DigitsToInt(digits)]
      [] tok = "%d" -> [acc EXCEPT !.d = DigitsToInt(digits)]
      [] tok = "%H" -> [acc EXCEPT !.H = DigitsToInt(digits)]
      [] tok = "%M" -> [acc EXCEPT !.M = DigitsToInt(digits)]
      [] tok = "%S" -> [acc EXCEPT !.S = DigitsToInt(digits)]
      [] tok = "%f" -> [acc EXCEPT !.f = DigitsToInt(RPad(digits, 6))]

\* the regular expression _strptime builds from the format, matched at the
\* start of the string with backtracking over each directive's alternatives
RECURSIVE StrpMatch(_, _, _)
RECURSIVE StrpTry(_, _, _, _)
RECURSIVE StrpOr(_, _, _, _, _)
StrpMatch(fmt, s, acc) ==
    IF fmt = <<>> THEN [ok |-> TRUE, acc |-> acc, rest |-> s]
    ELSE IF Head(fmt) \in Directives THEN StrpTry(fmt, s, acc, Widths(Head(fmt)))
    ELSE IF s # <<>> /\ Head(s) = Head(fmt) THEN StrpMatch(Tail(fmt), Tail(s), acc)
    ELSE NoMatch
\* the first w characters of s are one of the directive's alternatives
StrpFits(tok, s, w) ==
    /\ Len(s) >= w
    /\ AllDigits(SubSeq(s, 1, w))
    /\ InRange(tok, w, DigitsToInt(SubSeq(s, 1, w)))
\* the alternatives of the directive at the head of fmt, by width ws[1], ws[2], ...
StrpTry(fmt, s, acc, ws) ==
    IF ws = <<>> THEN NoMatch
    ELSE StrpOr(IF StrpFits(Head(fmt), s, Head(ws))
                THEN StrpMatch(Tail(fmt), SubSeq(s, Head(ws) + 1, Len(s)),
                               StrpSet(acc, Head(fmt), SubSeq(s, 1, Head(ws))))
                ELSE NoMatch,
                fmt, s, acc, Tail(ws))
\* this alternative's match r, or else the next alternative
StrpOr(r, fmt, s, acc, ws) ==
    IF r.ok THEN r ELSE StrpTry(fmt, s, acc, ws)

IsLeap(Y) == (Y % 4 = 0 /\ Y % 100 # 0) \/ Y % 400 = 0
DaysIn(Y, m) == IF m = 2 THEN (IF IsLeap(Y) THEN 29 ELSE 28)
                ELSE IF m \in {4, 6, 9, 11} THEN 30 ELSE 31

\* datetime.strptime(s, format): a datetime, or ValueError
StrpFinish(r) ==
    IF ~r.ok \/ r.rest # <<>> THEN Raise("ValueError")
    ELSE IF r.acc.d > DaysIn(r.acc.Y, r.acc.m) THEN Raise("ValueError")
    ELSE [dt |-> r.acc]
strptime(s, format) ==
    IF \E i \in 1..Len(format) : format[i] \in BadDirectives THEN Raise("ValueError")
    ELSE StrpFinish(StrpMatch(format, s, StrpDefault))

\* x.strftime('%Y-%m-%d'), for the years 1000..9999 the model draws
strftime_date(x) ==
    Pad(NatToDigits(x.dt.Y), 4) \o <<"-">> \o Pad(NatToDigits(x.dt.m), 2)
        \o <<"-">> \o Pad(NatToDigits(x.dt.d), 2)

\* x.strftime('%Y-%m-%dT%H:%M:%SZ'): the microseconds are not printed
strftime_datetime(x) ==
    strftime_date(x) \o <<"T">> \o Pad(NatToDigits(x.dt.H), 2) \o <<":">>
        \o Pad(NatToDigits(x.dt.M), 2) \o <<":">> \o Pad(NatToDigits(x.dt.S), 2) \o <<"Z">>

-----------------------------------------------------------------------------
(* qbandas/pack.py: the packers. Each returns None, {'value': V} or raises. *)

_pack_default(x) ==
    IF isna(x) THEN None ELSE [value |-> x]

\* mutant: a unit that is not known is taken as milliseconds
DurationOf_default_unit(n, unit) ==
    IF IsRaise(n) THEN n
    ELSE IF unit = "seconds" THEN [value |-> Whole(Trunc(n) * 1000)]
    ELSE [value |-> n]

\* the unit conversion of the coerced n = int(x), or int's exception
DurationOf(n, unit) ==
    IF IsRaise(n) THEN n
    ELSE IF unit = "seconds" THEN [value |-> Whole(Trunc(n) * 1000)]
    ELSE IF unit = "milliseconds" THEN [value |-> n]
    ELSE Raise("Exception")

\* mutant: the unit is validated before the null test
_pack_duration_unit_first(x, unit) ==
    IF unit \notin {"seconds", "milliseconds"} THEN Raise("Exception")
    ELSE IF isna(x) THEN None
    ELSE DurationOf(int(x), unit)

\* mutant: multiplied by 1000 first and coerced afterwards
_pack_duration_mul_first(x, unit) ==
    IF isna(x) THEN None
    ELSE IF unit \notin {"seconds", "milliseconds"} THEN Raise("Exception")
    ELSE IF unit = "seconds" /\ IsNum(x)
    THEN [value |-> Whole((IF x.neg THEN -1 ELSE 1) * (x.whole * 1000 + x.tenth * 100))]
    ELSE DurationOf(int(x), unit)

_pack_duration(x, unit) ==
    IF isna(x) THEN None
    ELSE DurationOf(int(x), unit)

\* d is the datetime to print, or strptime's exception
DateOf(d) ==
    IF IsRaise(d) THEN d ELSE [value |-> Str(strftime_date(d))]
DatetimeOf(d) ==
    IF IsRaise(d) THEN d ELSE [value |-> Str(strftime_datetime(d))]

\* mutant: a value of another type is packed as a null is
_pack_date_coerces(x, format) ==
    IF isna(x) THEN None
    ELSE IF ~(IsDt(x) \/ IsStr(x)) THEN None
    ELSE DateOf(IF IsStr(x) THEN strptime(x.str, format) ELSE x)

_pack_date(x, format) ==
    IF isna(x) THEN None
    ELSE IF ~(IsDt(x) \/ IsStr(x)) THEN Raise("Exception")
    ELSE DateOf(IF IsStr(x) THEN strptime(x.str, format) ELSE x)

_pack_datetime(x, format) ==
    IF isna(x) THEN None
    ELSE IF ~(IsDt(x) \/ IsStr(x)) THEN Raise("Exception")
    ELSE DatetimeOf(IF IsStr(x) THEN strptime(x.str, format) ELSE x)

\* mutant: every character of x from i on, whatever the template holds
CollectDigits_whole(x, format, i) == SubSeq(x, i, Len(x))

\* [x[i] for i in range(len(x)) if format[i] == '#'], joined
RECURSIVE CollectDigits(_, _, _)
CollectDigits(x, format, i) ==
    IF i > Len(x) THEN <<>>
    ELSE (IF format[i] = "#" THEN <<x[i]>> ELSE <<>>) \o CollectDigits(x, format, i + 1)

\* mutant: the extension starts one digit late
PhoneRender_ext_late(y) ==
    LET t == <<"(">> \o Slice(y, 0, 3) \o <<")", " ">> \o Slice(y, 3, 6)
                 \o <<"-">> \o Slice(y, 6, 10)
    IN IF Len(y) > 10 THEN t \o <<" ", "x">> \o SubSeq(y, 12, Len(y)) ELSE t

\* '(AAA) BBB-CCCC', then ' x' and the digits after the tenth
PhoneRender(y) ==
    LET t == <<"(">> \o Slice(y, 0, 3) \o <<")", " ">> \o Slice(y, 3, 6)
                 \o <<"-">> \o Slice(y, 6, 10)
    IN IF Len(y) > 10 THEN t \o <<" ", "x">> \o SubSeq(y, 11, Len(y)) ELSE t

\* the phone value of the collected characters y, or the parse error
PhoneOf(y) ==
    IF ~isnumeric(y) \/ Len(y) < 10 THEN Raise("Exception")
    ELSE [value |-> Str(PhoneRender(y))]

_pack_phonenum(x, format) ==
    IF isna(x) THEN None
    ELSE IF ~IsStr(x) THEN Raise("Exception")
    \* format[i] raises IndexError at the first i past the end of format
    ELSE IF Len(x.str) > Len(format) THEN Raise("Exception")
    ELSE PhoneOf(CollectDigits(x.str, format, 1))

-----------------------------------------------------------------------------
(* qbandas/_pack.py: the phone packer without a template *)

\* f'{x:.0f}' without its sign: the nearest integer, ties to even
RoundHalfEven(x) ==
    LET q == x.whole
        r == x.tenth
    IN IF r < 5 THEN q ELSE IF r > 5 THEN q + 1 ELSE IF q % 2 = 0 THEN q ELSE q + 1

\* re.sub(r'\D', '', x)
RECURSIVE StripNonDigits(_)
StripNonDigits(s) ==
    IF s = <<>> THEN <<>>
    ELSE (IF Head(s) \in Digits THEN <<Head(s)>> ELSE <<>>) \o StripNonDigits(Tail(s))

\* not x
Falsy(x) == \/ IsNum(x) /\ x.whole = 0 /\ x.tenth = 0
            \/ IsBool(x) /\ ~x.bool
            \/ IsStr(x) /\ x.str = <<>>

\* the phone value of the digits y, or the parse error
PhoneOfDigits(y) ==
    IF ~(10 <= Len(y)) THEN Raise("Exception")
    ELSE [value |-> Str(PhoneRender(y))]

_pack_phonenum_re(x) ==
    IF isna(x) \/ Falsy(x) THEN None
    ELSE IF ~(IsNum(x) \/ IsBool(x) \/ IsStr(x)) THEN Raise("Exception")
    ELSE PhoneOfDigits(StripNonDigits(IF IsNum(x) THEN NatToDigits(RoundHalfEven(x))
                                      ELSE IF IsBool(x) THEN <<"1">>
                                      ELSE x.str))

-----------------------------------------------------------------------------
(* parsers.py: the packers transform binds, under the names it imports *)

\* s * n for a str
Repeat(s, n) == [i \in 1..(Len(s) * n) |-> s[((i - 1) % Len(s)) + 1]]

\* x *= 1000
Times1000(x) ==
    IF IsNum(x) THEN Whole((IF x.neg THEN -1 ELSE 1) * (x.whole * 1000 + x.tenth * 100))
    ELSE IF IsBool(x) THEN Whole(IF x.bool THEN 1000 ELSE 0)
    ELSE IF IsStr(x) THEN Str(Repeat(x.str, 1000))
    ELSE Raise("TypeError")

parse_default(x) ==
    IF isna(x) THEN None ELSE [value |-> x]

\* {'value': int(x)} for the converted x, or the exception of x * 1000 or int
IntValueOf(n) ==
    IF IsRaise(n) THEN n ELSE [value |-> n]
IntOf(m) ==
    IntValueOf(IF IsRaise(m) THEN m ELSE int(m))

\* mutant: coerced to an integer first and multiplied afterwards
parse_duration_int_first(x, col, units) ==
    IF isna(x) THEN None
    ELSE IF units \notin {"seconds", "milliseconds"} THEN RaiseCol("Exception", col)
    ELSE DurationOf(int(x), units)

parse_duration(x, col, units) ==
    IF isna(x) THEN None
    ELSE IF units \notin {"seconds", "milliseconds"} THEN RaiseCol("Exception", col)
    ELSE IntOf(IF units = "seconds" THEN Times1000(x) ELSE x)

parse_date(x, col, format) ==
    IF isna(x) THEN None
    ELSE IF ~(IsDt(x) \/ IsStr(x)) THEN RaiseCol("Exception", col)
    ELSE DateOf(IF IsStr(x) THEN strptime(x.str, format) ELSE x)

parse_datetime(x, col, format) ==
    IF isna(x) THEN None
    ELSE IF ~(IsDt(x) \/ IsStr(x)) THEN RaiseCol("Exception", col)
    ELSE DatetimeOf(IF IsStr(x) THEN strptime(x.str, format) ELSE x)

\* the phone value of the collected characters y, or the parse error naming col
PhoneOfCol(y, col) ==
    IF ~isnumeric(y) \/ Len(y) < 10 THEN RaiseCol("Exception", col)
    ELSE [value |-> Str(PhoneRender(y))]

parse_phonenum(x, col, format) ==
    IF isna(x) THEN None
    ELSE IF ~IsStr(x) THEN RaiseCol("Exception", col)
    ELSE IF Len(x.str) > Len(format) THEN RaiseCol("Exception", col)
    ELSE PhoneOfCol(CollectDigits(x.str, format, 1), col)

-----------------------------------------------------------------------------
(* qbandas/__init__.py: transform, payloads, full_transform.                *)
(* A dataframe is a sequence of columns [name, cells]; a dataframe without  *)
(* columns has no rows. A declaration of col_types is a bare str            *)
(* ([bare |-> TRUE]) or a tuple of a type and arguments; an argument is a   *)
(* str, read as a unit name or as a format / template.                      *)

Arg(unit, format) == [unit |-> unit, format |-> format]
Bare(type) == [bare |-> TRUE, type |-> type, args |-> <<>>]
Tuple(type, args) == [bare |-> FALSE, type |-> type, args |-> args]

Column(name, cells) == [name |-> name, cells |-> cells]
Rows(d) == IF d = <<>> THEN 0 ELSE Len(d[1].cells)
Names(d) == {d[k].name : k \in 1..Len(d)}

\* the branch of transform's if / elif chain a column type takes
DefaultTypes == {"numeric", "checkbox", "text", "email"}
ArgTypes == {"duration", "date", "datetime", "phone"}

\* f(x) for the packer f that transform binds to the column
ApplyBound(type, args, col, x) ==
    CASE type \in DefaultTypes -> parse_default(x)
      [] type = "duration" -> parse_duration(x, col, args[1].unit)
      [] type = "date" -> parse_date(x, col, args[1].format)
      [] type = "datetime" -> parse_datetime(x, col, args[1].format)
      [] type = "phone" -> parse_phonenum(x, col, args[1].format)

\* the first row at which the bound packer raises, or 0
FirstRaise(cells) ==
    IF \E i \in 1..Len(cells) : IsRaise(cells[i])
    THEN CHOOSE i \in 1..Len(cells) :
             IsRaise(cells[i]) /\ \A j \in 1..(i - 1) : ~IsRaise(cells[j])
    ELSE 0

\* the applications (column, row) of a packer, rows 1..n of col
Applications(col, n) == [i \in 1..n |-> <<col, i>>]

\* transform raises exc after the applications in log
TransformRaise(exc, log) == [raised |-> TRUE, out |-> <<>>, exc |-> exc, log |-> log]

\* mutant: the packer is applied to the rows in reverse order
PackedColumn_reversed(type, args, col, cells) ==
    [i \in 1..Len(cells) |-> ApplyBound(type, args, col, cells[Len(cells) + 1 - i])]

\* t.apply(f)
PackedColumn(type, args, col, cells) ==
    [i \in 1..Len(cells) |-> ApplyBound(type, args, col, cells[i])]

\* transform's loop from column k on: the dataframe out, or the exception,
\* with the packer applications made on the way
RECURSIVE TransformFrom(_, _, _, _, _)

\* out[col] = t, unless applying f raised at row r > 0
TransformStored(d, ct, k, out, log, t, r) ==
    IF r > 0
    THEN TransformRaise(t[r], log \o Applications(d[k].name, r))
    ELSE TransformFrom(d, ct, k + 1, Append(out, Column(d[k].name, t)),
                       log \o Applications(d[k].name, Len(t)))

TransformApplied(d, ct, k, out, log, t) ==
    TransformStored(d, ct, k, out, log, t, FirstRaise(t))

\* mutant: a column that lacks its argument is left out like a dropped one
TransformColumn_skips_bare(d, ct, k, out, log, decl) ==
    IF (decl.bare /\ decl.type = "drop") \/ (decl.type \in ArgTypes /\ decl.args = <<>>)
    THEN TransformFrom(d, ct, k + 1, out, log)
    ELSE IF decl.type \notin DefaultTypes \cup ArgTypes
    THEN TransformRaise(RaiseCol("has an invalid type", d[k].name), log)
    ELSE TransformApplied(d, ct, k, out, log,
                          PackedColumn(decl.type, decl.args, d[k].name, d[k].cells))

\* one pass of the loop body for the declared column d[k]
TransformColumn(d, ct, k, out, log, decl) ==
    IF decl.bare /\ decl.type = "drop"
    THEN TransformFrom(d, ct, k + 1, out, log)
    ELSE IF decl.type \in ArgTypes /\ decl.args = <<>>
    THEN TransformRaise(RaiseCol("specify an argument", d[k].name), log)
    ELSE IF decl.type \notin DefaultTypes \cup ArgTypes
    THEN TransformRaise(RaiseCol("has an invalid type", d[k].name), log)
    ELSE TransformApplied(d, ct, k, out, log,
                          PackedColumn(decl.type, decl.args, d[k].name, d[k].cells))

\* mutant: a column without a declaration is skipped
TransformFrom_lenient(d, ct, k, out, log) ==
    IF k > Len(d) THEN [raised |-> FALSE, out |-> out, exc |-> None, log |-> log]
    ELSE IF d[k].name \notin DOMAIN ct
    THEN TransformFrom(d, ct, k + 1, out, log)
    ELSE TransformColumn(d, ct, k, out, log, ct[d[k].name])

TransformFrom(d, ct, k, out, log) ==
    IF k > Len(d) THEN [raised |-> FALSE, out |-> out, exc |-> None, log |-> log]
    ELSE IF d[k].name \notin DOMAIN ct
    THEN TransformRaise(RaiseCol("is missing in col_types", d[k].name), log)
    ELSE TransformColumn(d, ct, k, out, log, ct[d[k].name])

transform(d, ct) == TransformFrom(d, ct, 1, <<>>, <<>>)

\* the first column of d that has no entry in f, or 0
FirstMissing(d, f) ==
    IF \E k \in 1..Len(d) : d[k].name \notin DOMAIN f
    THEN CHOOSE k \in 1..Len(d) :
             d[k].name \notin DOMAIN f /\ \A j \in 1..(k - 1) : d[j].name \in DOMAIN f
    ELSE 0

\* the columns whose entry at row i is not null
Present(d, i) == {k \in 1..Len(d) : ~isna(d[k].cells[i])}

\* the column that a key of the renamed row i comes from
ColumnOf(d, f, i, key) == CHOOSE k \in Present(d, i) : f[d[k].name] = key

\* mutant: the null entries are kept
RowToDict_keep_nulls(d, f, i) ==
    [key \in {f[d[k].name] : k \in 1..Len(d)} |->
        d[CHOOSE k \in 1..Len(d) : f[d[k].name] = key].cells[i]]

\* mutant: the entry is the value inside {'value': V}
RowToDict_unwrapped(d, f, i) ==
    [key \in {f[d[k].name] : k \in Present(d, i)} |-> d[ColumnOf(d, f, i, key)].cells[i].value]

\* f(x) of payloads and _row_to_dict of upload: row i of the renamed
\* dataframe as a dict without its null entries
RowToDict(d, f, i) ==
    [key \in {f[d[k].name] : k \in Present(d, i)} |-> d[ColumnOf(d, f, i, key)].cells[i]]

\* mutant: a row without any value gives no record
Records_drop_empty(d, f) ==
    SelectSeq([i \in 1..Rows(d) |-> RowToDict(d, f, i)], LAMBDA rec : DOMAIN rec # {})

\* list(t.apply(f, axis=1))
Records(d, f) == [i \in 1..Rows(d) |-> RowToDict(d, f, i)]

\* two columns renamed to one field id: dict(x) then holds a Series under
\* that key, and 'not pd.isna(v)' raises ValueError
Collides(d, f) ==
    \E j, k \in 1..Len(d) : j # k /\ f[d[j].name] = f[d[k].name]

\* size: int = 20_000
DefaultSize == 20000

\* mutant: the loop runs once more when the last batch is full
RECURSIVE BatchLoop_inclusive(_, _, _, _)
BatchLoop_inclusive(t, i, n, out) ==
    IF i > Len(t) THEN out
    ELSE BatchLoop_inclusive(t, i + n, n, Append(out, Slice(t, i, i + n)))

\* for i in range(0, len(t), size): out.append(t[i:i+size])
RECURSIVE BatchLoop(_, _, _, _)
BatchLoop(t, i, n, out) ==
    IF i >= Len(t) THEN out
    ELSE BatchLoop(t, i + n, n, Append(out, Slice(t, i, i + n)))

\* mutant: a last batch shorter than the size is left out
Batches_whole_only(t, n) ==
    IF n = 0 THEN Raise("ValueError")
    ELSE IF n < 0 THEN [batches |-> <<>>]
    ELSE [batches |-> BatchLoop(SubSeq(t, 1, Len(t) - (Len(t) % n)), 0, n, <<>>)]

\* mutant: a negative step puts every record in one batch
Batches_negative_as_one(t, n) ==
    IF n = 0 THEN Raise("ValueError")
    ELSE IF n < 0 THEN [batches |-> IF t = <<>> THEN <<>> ELSE <<t>>]
    ELSE [batches |-> BatchLoop(t, 0, n, <<>>)]

\* range(0, len(t), size) raises for a step of 0 and is empty for a negative one
Batches(t, n) ==
    IF n = 0 THEN Raise("ValueError")
    ELSE IF n < 0 THEN [batches |-> <<>>]
    ELSE [batches |-> BatchLoop(t, 0, n, <<>>)]

\* mutant: the columns without a field id are left out of the records
PayloadsChecked_lenient(d, f, n, m) ==
    IF Rows(d) > 0 /\ Collides(SelectSeq(d, LAMBDA c : c.name \in DOMAIN f), f)
    THEN Raise("ValueError")
    ELSE Batches(Records(SelectSeq(d, LAMBDA c : c.name \in DOMAIN f), f), n)

PayloadsChecked(d, f, n, m) ==
    IF m > 0 THEN RaiseCol("not defined in fids", d[m].name)
    ELSE IF Rows(d) > 0 /\ Collides(d, f) THEN Raise("ValueError")
    ELSE Batches(Records(d, f), n)

\* payloads(df, fids, size): [batches |-> the list of payloads], or the exception
payloads(d, f, n) == PayloadsChecked(d, f, n, FirstMissing(d, f))

\* a schema of full_transform is a dict, here its items in order; an entry is
\* 'drop', another bare str, or a tuple (fid, type, args...)
SDrop == [kind |-> "drop"]
SStr(type) == [kind |-> "str", type |-> type]
STuple(fid_is_int, fid, rest) == [kind |-> "tuple", fid_is_int |-> fid_is_int, fid |-> fid, rest |-> rest]
\* the elements after the fid: a type, if any, and the arguments after it
Rest(has_type, type, args) == [has_type |-> has_type, type |-> type, args |-> args]
Item(key, entry) == [key |-> key, entry |-> entry]

\* fn[key] = v
Put(fn, key, v) == [x \in DOMAIN fn \cup {key} |-> IF x = key THEN v ELSE fn[x]]

UnpackRaise(kind, key) == [raised |-> TRUE, exc |-> RaiseCol(kind, key), ct |-> <<>>, f |-> <<>>]

\* the declaration a tuple's elements after the fid unpack to
Declared(rest) == IF rest.args = <<>> THEN Bare(rest.type) ELSE Tuple(rest.type, rest.args)

\* full_transform's loop over schema.keys() from item k on
RECURSIVE Unpack(_, _, _, _)
UnpackItem(sch, k, ct, f, key, e) ==
    IF e.kind = "drop" THEN Unpack(sch, k + 1, Put(ct, key, Bare("drop")), f)
    ELSE IF e.kind # "tuple" THEN UnpackRaise("has invalid schema", key)
    ELSE IF ~e.fid_is_int THEN UnpackRaise("has invalid fid", key)
    ELSE IF ~e.rest.has_type THEN UnpackRaise("has no data type", key)
    ELSE Unpack(sch, k + 1, Put(ct, key, Declared(e.rest)), Put(f, key, e.fid))

Unpack(sch, k, ct, f) ==
    IF k > Len(sch) THEN [raised |-> FALSE, exc |-> None, ct |-> ct, f |-> f]
    ELSE UnpackItem(sch, k, ct, f, sch[k].key, sch[k].entry)

\* what a call of full_transform leaves: where it ended, what it returned or
\* raised, and the dicts and the dataframe it built on the way
Outcome(pc_, result_, ct, f, packed_, log) ==
    [pc |-> pc_, result |-> result_, col_types |-> ct, fids |-> f,
     packed |-> packed_, applied |-> log]

\* out = payloads(inter, fids=fids, size=size)
FullPayloads(u, r, p) ==
    Outcome(IF IsRaise(p) THEN "raised" ELSE "done", p, u.ct, u.f, r.out, r.log)

\* inter = transform(df, col_types=col_types)
FullTransformed(u, r, n) ==
    IF r.raised THEN Outcome("raised", r.exc, u.ct, u.f, <<>>, r.log)
    ELSE FullPayloads(u, r, payloads(r.out, u.f, n))

FullUnpacked(d, u, n) ==
    IF u.raised THEN Outcome("raised", u.exc, u.ct, u.f, <<>>, <<>>)
    ELSE FullTransformed(u, transform(d, u.ct), n)

full_transform(d, sch, n) == FullUnpacked(d, Unpack(sch, 1, <<>>, <<>>), n)

-----------------------------------------------------------------------------
(* qbandas/upload.py: records(df, table_name, directory, **kwargs).         *)
(* The schema file is [dbid, cols]: the table id under '_DBID_' and, per    *)
(* column, [id, type, args] with args the keyword arguments of the packer   *)
(* (<<>> when the entry has no 'args').                                     *)

Info(id, type, args) == [id |-> id, type |-> type, args |-> args]
Kwargs(drop, has_size, n) == [drop |-> drop, has_size |-> has_size, size |-> n]

\* FIELD_TYPES[col_type]['pack']: the packer of a registered type, "none" for
\* a type that is registered without one
DefaultPacked == {"text", "numeric", "checkbox", "email-address", "record-id"}
Unpacked == {"lookup", "summary", "user", "multi-select", "file-attachment", "time-of-day"}
FIELD_TYPES ==
    [type \in DefaultPacked \cup Unpacked \cup {"duration", "date", "datetime", "phone-number"} |->
        IF type \in DefaultPacked THEN "default"
        ELSE IF type \in Unpacked THEN "none"
        ELSE IF type = "phone-number" THEN "phonenum"
        ELSE type]

\* partial(packer, **col_kwargs)(x); a datetime column comes with its format
ApplyPack(pack, args, x) ==
    CASE pack = "default" -> IF args = <<>> THEN _pack_default(x) ELSE Raise("TypeError")
      [] pack = "duration" -> _pack_duration(x, IF args = <<>> THEN "seconds" ELSE args[1].unit)
      [] pack = "date" -> _pack_date(x, IF args = <<>> THEN <<"%m", ".", "%d", ".", "%Y">> ELSE args[1].format)
      [] pack = "datetime" -> _pack_datetime(x, args[1].format)
      [] pack = "phonenum" -> _pack_phonenum(x, IF args = <<>> THEN Repeat(<<"#">>, 10) ELSE args[1].format)

\* df[col].copy().apply(packing_func)
PackedWith(pack, args, cells) ==
    [i \in 1..Len(cells) |-> ApplyPack(pack, args, cells[i])]

\* the columns of df that are not keys of the schema, in order
RECURSIVE UnknownColumns(_, _, _)
UnknownColumns(d, cols, k) ==
    IF k > Len(d) THEN <<>>
    ELSE (IF d[k].name \in DOMAIN cols THEN <<>> ELSE <<d[k].name>>) \o UnknownColumns(d, cols, k + 1)

UploadRaise(kind, col) == [raised |-> TRUE, out |-> <<>>, exc |-> RaiseCol(kind, col)]

\* the packing loop from column k on: packed_df, or the exception re-raised
\* with the column's name
RECURSIVE PackFrom(_, _, _, _)

\* mutant: a column on which the packer raised is left out
PackStored_leaves_out(d, cols, k, out, t, r) ==
    IF r > 0 THEN PackFrom(d, cols, k + 1, out)
    ELSE PackFrom(d, cols, k + 1, Append(out, Column(d[k].name, t)))

PackStored(d, cols, k, out, t, r) ==
    IF r > 0 THEN UploadRaise(t[r].raised, d[k].name)
    ELSE PackFrom(d, cols, k + 1, Append(out, Column(d[k].name, t)))

PackApplied(d, cols, k, out, t) == PackStored(d, cols, k, out, t, FirstRaise(t))

\* mutant: a column of a type without a packer is stored as it is
PackColumn_passes_raw(d, cols, k, out, col_info) ==
    IF col_info.type \notin DOMAIN FIELD_TYPES THEN UploadRaise("KeyError", d[k].name)
    ELSE IF FIELD_TYPES[col_info.type] = "none"
    THEN PackFrom(d, cols, k + 1, Append(out, Column(d[k].name, d[k].cells)))
    ELSE PackApplied(d, cols, k, out, PackedWith(FIELD_TYPES[col_info.type], col_info.args, d[k].cells))

PackColumn(d, cols, k, out, col_info) ==
    IF col_info.type \notin DOMAIN FIELD_TYPES THEN UploadRaise("KeyError", d[k].name)
    ELSE IF FIELD_TYPES[col_info.type] = "none" THEN UploadRaise("TypeError", d[k].name)
    ELSE PackApplied(d, cols, k, out, PackedWith(FIELD_TYPES[col_info.type], col_info.args, d[k].cells))

PackFrom(d, cols, k, out) ==
    IF k > Len(d) THEN [raised |-> FALSE, out |-> out, exc |-> None]
    ELSE IF d[k].name \notin DOMAIN cols THEN PackFrom(d, cols, k + 1, out)
    ELSE PackColumn(d, cols, k, out, cols[d[k].name])

\* {k: v['id'] for k, v in schema.items() if k != '_DBID_' and k in packed_df.columns}
SchemaFids(cols, p) == [c \in DOMAIN cols \cap Names(p) |-> cols[c].id]

\* kwargs["Payload-Size"] if "Payload-Size" in kwargs else 20_000
BatchSize(kw) == IF kw.has_size THEN kw.size ELSE DefaultSize

\* body with body["data"] = records[i:i+batch_size]
Body(dbid, recs, i, n) == [to |-> dbid, data |-> Slice(recs, i, i + n)]
-----------------------------------------------------------------------------
(* src/qbandas/__init__.py of the earlier package: upload(df, schema, info), *)
(* which sends the payloads of full_transform one by one with send_records. *)

\* a response, by its status and whether its body is JSON
Response(status, json) == [status |-> status, json |-> json]

\* warnings.warn(pretty_str(r)) in the except block: pretty_str reads r.json().
\* The exception this raises, or None
WarnRaises(r) ==
    IF r = Unbound THEN Raise("UnboundLocalError")
    ELSE IF ~r.json THEN Raise("JSONDecodeError")
    ELSE None

-----------------------------------------------------------------------------
(* The dataframes and arguments drawn *)

MaxRows == 3         \* rows of a dataframe
MaxSize == 2         \* batch sizes 1..MaxSize, besides the default and -1, 0

\* row i of a column holds a value that tells the column and the row
Val(col, i) == IF col = "nums" THEN Whole(i) ELSE Whole(5 * i)

\* a column with the rows in nulls null
Cells(col, n, nulls) == [i \in 1..n |-> IF i \in nulls THEN None ELSE Val(col, i)]
NullSets(n) == {{}, 1..n} \cup {{r} : r \in 1..n}

Shapes == {<<>>, <<"nums">>, <<"durr">>, <<"nums", "durr">>, <<"durr", "nums">>}
Frames ==
    UNION {UNION {{[k \in 1..Len(sh) |-> Column(sh[k], Cells(sh[k], n, nl[k]))] :
                      nl \in [1..Len(sh) -> NullSets(n)]} :
                  n \in (IF sh = <<>> THEN {0} ELSE 0..MaxRows)} :
           sh \in Shapes}

Seconds == <<Arg("seconds", <<"s">>)>>
Millis == <<Arg("milliseconds", <<"m">>)>>
Hours == <<Arg("hours", <<"h">>)>>
ShortTemplate == <<Arg("###", <<"#", "#", "#">>)>>

NumsDecls == {Bare("numeric"), Bare("drop"), Bare("lookup"), Tuple("drop", <<>>)}
DurrDecls == {Tuple("duration", Seconds), Tuple("duration", Millis), Tuple("duration", <<>>),
              Tuple("duration", Hours), Bare("drop"), Tuple("phone", ShortTemplate),
              Bare("date"), Bare("datetime"), Bare("phone")}
\* a function on a set of column names, from what each column may be
Dicts(n, d) ==
    {<<>>} \cup {[c \in {"nums"} |-> v] : v \in n} \cup {[c \in {"durr"} |-> v] : v \in d}
        \cup {[c \in {"nums", "durr"} |-> IF c = "nums" THEN p[1] ELSE p[2]] : p \in n \X d}
ColTypes == Dicts(NumsDecls, DurrDecls)
Fids == Dicts({"6"}, {"9", "6"})
Sizes == {-1, 0, DefaultSize} \cup 1..MaxSize

Numeric6 == STuple(TRUE, "6", Rest(TRUE, "numeric", <<>>))
Seconds9 == STuple(TRUE, "9", Rest(TRUE, "duration", Seconds))
Schemas ==
    {<<Item("nums", Numeric6), Item("durr", Seconds9)>>,
     <<Item("durr", STuple(TRUE, "9", Rest(TRUE, "duration", Millis))), Item("nums", Numeric6)>>,
     <<Item("nums", SDrop), Item("durr", Seconds9)>>,
     <<Item("nums", Numeric6), Item("durr", SStr("duration"))>>,
     <<Item("nums", STuple(FALSE, "6", Rest(TRUE, "numeric", <<>>))), Item("durr", Seconds9)>>,
     <<Item("nums", STuple(TRUE, "6", Rest(FALSE, "", <<>>))), Item("durr", Seconds9)>>,
     <<Item("nums", Numeric6)>>,
     <<Item("nums", Numeric6), Item("durr", STuple(TRUE, "6", Rest(TRUE, "duration", Seconds)))>>}

\* schema files: durr declared in full, without args, under an unpacked or an
\* unregistered type, with a unit the packer refuses, with nums' id, or not at all
DurrInfos == {Info("9", "duration", Seconds), Info("9", "duration", <<>>),
              Info("9", "lookup", <<>>), Info("9", "formula", <<>>),
              Info("9", "duration", Hours), Info("6", "duration", Millis)}
SchemaFiles ==
    {[dbid |-> "bqtable", cols |-> c] : c \in Dicts({Info("6", "numeric", <<>>)}, DurrInfos) \ {<<>>}}
KwargsDrawn ==
    {Kwargs(drop, FALSE, 0) : drop \in BOOLEAN}
        \cup {Kwargs(drop, TRUE, n) : drop \in BOOLEAN, n \in {-1, 0} \cup 1..MaxSize}
\* the status of a response: success, or one that raise_for_status raises on
Statuses == {200, 400, 503}
\* what a request of send_records ends with: accepted, refused with a JSON
\* body, refused with another body, or requests.post raising
Outcomes == {Response(200, TRUE), Response(400, TRUE), Response(502, FALSE),
             Raise("ConnectionError")}

-----------------------------------------------------------------------------
(* The entry points as actions *)

Init ==
    /\ mode = "idle" /\ pc = "start"
    /\ df \in Frames
    /\ col_types = <<>> /\ fids = <<>> /\ size = 0 /\ schema = <<>>
    /\ packed = <<>> /\ result = Pending /\ call = NoCall
    /\ applied = <<>> /\ posts = <<>> /\ statuses = <<>>
    /\ records = <<>> /\ kwargs = <<>>
    /\ responses = <<>> /\ last = Unbound /\ info = <<>>
    /\ NoFiles

\* transform returned or raised r
TransformEnds(r) ==
    /\ applied' = r.log
    /\ pc' = IF r.raised THEN "raised" ELSE "transformed"
    /\ result' = IF r.raised THEN r.exc ELSE result
    /\ packed' = r.out

\* inter = transform(df, col_types)
Transform ==
    /\ mode = "idle" /\ pc = "start"
    /\ mode' = "transform"
    /\ \E ct \in ColTypes : col_types' = ct /\ TransformEnds(transform(df, ct))
    /\ UNCHANGED <<df, fids, size, schema, call, posts, statuses, records, kwargs, responses, last>>
    /\ UNCHANGED <<info, files>>

\* payloads returned or raised r
PayloadsEnds(r) ==
    /\ result' = r
    /\ pc' = IF IsRaise(r) THEN "raised" ELSE "done"

\* out = payloads(inter, fids, size)
Payloads ==
    /\ mode = "transform" /\ pc = "transformed"
    /\ mode' = "payloads"
    /\ \E f \in Fids, n \in Sizes :
        fids' = f /\ size' = n /\ PayloadsEnds(payloads(packed, f, n))
    /\ UNCHANGED <<df, col_types, schema, packed, call, applied, posts, statuses,
                   records, kwargs, responses, last>>
    /\ UNCHANGED <<info, files>>

\* full_transform ended with the outcome o
FullTransformEnds(o) ==
    /\ pc' = o.pc /\ result' = o.result
    /\ col_types' = o.col_types /\ fids' = o.fids
    /\ packed' = o.packed /\ applied' = o.applied

\* full_transform(df, schema, size)
FullTransform ==
    /\ mode = "idle" /\ pc = "start"
    /\ mode' = "full"
    /\ \E sch \in Schemas, n \in Sizes :
        schema' = sch /\ size' = n /\ FullTransformEnds(full_transform(df, sch, n))
    /\ UNCHANGED <<df, call, posts, statuses, records, kwargs, responses, last>>
    /\ UNCHANGED <<info, files>>

\* the check of df's columns against the schema came out with unknown
UploadChecked(kw, unknown) ==
    IF ~kw.drop /\ unknown # <<>>
    THEN pc' = "raised" /\ result' = [raised |-> "Exception", cols |-> unknown]
    ELSE pc' = "checked" /\ result' = result

\* upload(df, table_name, **kwargs), up to the check of the columns
Upload ==
    /\ mode = "idle" /\ pc = "start"
    /\ mode' = "upload"
    /\ \E sch \in SchemaFiles, kw \in KwargsDrawn :
        /\ schema' = sch /\ kwargs' = kw
        /\ UploadChecked(kw, UnknownColumns(df, sch.cols, 1))
    /\ UNCHANGED <<df, col_types, fids, size, packed, call, applied, posts, statuses, records,
                   responses, last>>
    /\ UNCHANGED <<info, files>>

\* e.args[0] of the exception re-raised from the packing loop: the column,
\* its type and its arguments as the schema gives them
Failed(col, col_info) ==
    [f |-> "Failed parsing column", col |-> col, col_type |-> col_info.type,
     col_kwargs |-> col_info.args]

\* the packing loop ended with r
UploadPackEnds(r) ==
    /\ pc' = IF r.raised THEN "raised" ELSE "packed"
    /\ result' = IF r.raised THEN r.exc ELSE result
    /\ call' = IF r.raised THEN Failed(r.exc.col, schema.cols[r.exc.col]) ELSE call
    /\ packed' = r.out

\* the loop that packs the columns the schema knows
UploadPack ==
    /\ mode = "upload" /\ pc = "checked"
    /\ UploadPackEnds(PackFrom(df, schema.cols, 1, <<>>))
    /\ UNCHANGED <<mode, df, col_types, fids, size, schema, applied, posts, statuses,
                   records, kwargs, responses, last>>
    /\ UNCHANGED <<info, files>>

\* the records are built from the renamed packed_df, and the loop over
\* range(0, len(records), batch_size) is entered
UploadRecords ==
    /\ mode = "upload" /\ pc = "packed"
    /\ fids' = SchemaFids(schema.cols, packed)
    /\ size' = BatchSize(kwargs)
    /\ IF Rows(packed) > 0 /\ Collides(packed, fids')
       THEN pc' = "raised" /\ result' = Raise("ValueError") /\ records' = records
       ELSE /\ records' = Records(packed, fids')
            /\ IF size' = 0
               THEN pc' = "raised" /\ result' = Raise("ValueError")
               ELSE pc' = "posting" /\ result' = result
    /\ UNCHANGED <<mode, df, col_types, schema, packed, call, applied, posts, statuses, kwargs,
                   responses, last>>
    /\ UNCHANGED <<info, files>>

\* mutant: the loop goes on after a status that raise_for_status raises on
UploadPost_goes_on ==
    /\ mode = "upload" /\ pc = "posting"
    /\ size > 0 /\ Len(posts) * size < Len(records)
    /\ posts' = Append(posts, Body(schema.dbid, records, Len(posts) * size, size))
    /\ \E status \in Statuses : statuses' = Append(statuses, status)
    /\ UNCHANGED <<mode, pc, df, col_types, fids, size, schema, packed, result, call, applied,
                   records, kwargs, responses, last>>
    /\ UNCHANGED <<info, files>>

\* one pass of the loop: the request of the batch at i = len(posts) * size and
\* its response, on which raise_for_status raises or not
UploadPost ==
    /\ mode = "upload" /\ pc = "posting"
    /\ size > 0 /\ Len(posts) * size < Len(records)
    /\ posts' = Append(posts, Body(schema.dbid, records, Len(posts) * size, size))
    /\ \E status \in Statuses :
        /\ statuses' = Append(statuses, status)
        /\ IF status >= 400
           THEN pc' = "raised" /\ result' = Raise("HTTPError")
           ELSE pc' = pc /\ result' = result
    /\ UNCHANGED <<mode, df, col_types, fids, size, schema, packed, call, applied,
                   records, kwargs, responses, last>>
    /\ UNCHANGED <<info, files>>

\* mutant: the function returns after any number of requests
UploadReturn_early ==
    /\ mode = "upload" /\ pc = "posting"
    /\ pc' = "done" /\ result' = None
    /\ UNCHANGED <<mode, df, col_types, fids, size, schema, packed, call, applied, posts,
                   statuses, records, kwargs, responses, last>>
    /\ UNCHANGED <<info, files>>

\* the range is exhausted: the function returns None
UploadReturn ==
    /\ mode = "upload" /\ pc = "posting"
    /\ size < 0 \/ Len(posts) * size >= Len(records)
    /\ pc' = "done" /\ result' = None
    /\ UNCHANGED <<mode, df, col_types, fids, size, schema, packed, call, applied, posts,
                   statuses, records, kwargs, responses, last>>
    /\ UNCHANGED <<info, files>>

\* upload(df, schema, info) of the earlier package: once full_transform has
\* returned the payloads, out = [None] * len(payloads)
SendStart ==
    /\ mode = "full" /\ pc = "done"
    /\ mode' = "send" /\ pc' = "sending"
    /\ responses' = [i \in 1..Len(result.batches) |-> None]
    /\ UNCHANGED <<df, col_types, fids, size, schema, packed, result, call, applied, posts,
                   statuses, records, kwargs, last>>
    /\ UNCHANGED <<info, files>>

\* the except block ended: it raised h itself, or (h is None) the loop goes on
SendHandled(h) ==
    IF h = None THEN pc' = pc /\ result' = result
    ELSE pc' = "raised" /\ result' = h

\* payload i came back with o: a response, or the exception of requests.post
SendEnds(o, i) ==
    /\ last' = (IF IsRaise(o) THEN last ELSE o)
    /\ responses' = (IF IsRaise(o) THEN responses ELSE [responses EXCEPT ![i] = o])
    /\ SendHandled(IF IsRaise(o) \/ o.status >= 400 THEN WarnRaises(last') ELSE None)

\* one pass of the loop over enumerate(payloads)
Send ==
    /\ mode = "send" /\ pc = "sending"
    /\ Len(posts) < Len(result.batches)
    /\ posts' = Append(posts, result.batches[Len(posts) + 1])
    /\ \E o \in Outcomes :
        statuses' = Append(statuses, o) /\ SendEnds(o, Len(posts) + 1)
    /\ UNCHANGED <<mode, df, col_types, fids, size, schema, packed, call, applied,
                   records, kwargs>>
    /\ UNCHANGED <<info, files>>

\* return out
SendReturn ==
    /\ mode = "send" /\ pc = "sending"
    /\ Len(posts) = Len(result.batches)
    /\ pc' = "returned"
    /\ UNCHANGED <<mode, df, col_types, fids, size, schema, packed, result, call, applied,
                   posts, statuses, records, kwargs, responses, last>>
    /\ UNCHANGED <<info, files>>

Next ==
    \/ Transform
    \/ Payloads
    \/ FullTransform
    \/ Upload
    \/ UploadPack
    \/ UploadRecords
    \/ UploadPost
    \/ UploadReturn
    \/ SendStart
    \/ Send
    \/ SendReturn

Spec == Init /\ [][Next]_vars

-----------------------------------------------------------------------------
(* The packers called one at a time: the raw values and arguments drawn *)

MaxTenths == 25      \* numbers -MaxTenths/10 .. MaxTenths/10 in steps of 0.1
MinPhoneLen == 9     \* shortest generated phone string and template
MaxPhoneLen == 12    \* longest generated phone string; templates go one further

ADatetime == Dt(1754, 5, 10, 0, 24, 0, 0)
BDatetime == Dt(2022, 4, 5, 7, 30, 25, 256)

Numbers == {Num(t) : t \in -MaxTenths..MaxTenths} \cup {Num(83), Num(97), Whole(15), Whole(3000)}

DefaultRaws == {None, Bool(TRUE), Bool(FALSE), Str(<<>>), Str(<<"O", "b", "j">>), ADatetime}
                  \cup {Num(t) : t \in {0, 10, 83}}

DurationRaws == {None, Bool(TRUE), Str(<<"1", "5">>), Str(<<"-", "2">>),
                 Str(<<"8", ".", "3">>), Str(<<>>), ADatetime} \cup Numbers
Units == {"seconds", "milliseconds", "hours", ""}

\* 'm.d.Y' and 'mm.dd.YYYY' strings, valid and invalid days of the month
DateStrs ==
    {NatToDigits(m) \o <<".">> \o NatToDigits(d) \o <<".">> \o NatToDigits(Y) :
        m \in {1, 2, 11, 12, 13}, d \in {1, 9, 22, 29, 30, 31}, Y \in {1972, 2000}}
    \cup {Pad(NatToDigits(m), 2) \o <<".">> \o Pad(NatToDigits(d), 2) \o <<".">> \o NatToDigits(Y) :
        m \in {1, 2, 11}, d \in {4, 22, 30}, Y \in {1972}}
    \cup {<<"1", "9", "7", "2", "-", "1", "1", "-", "2", "2">>, <<>>, <<"u", "n", "u", "s", "e", "d">>}
DatetimeStrs ==
    {<<"3", "0", ".", "1", "1", ".", "1", "9", "7", "4", ":">> \o Pad(NatToDigits(H), 2) \o <<":">>
        \o NatToDigits(M) \o <<":">> \o <<"0", "8", ".">> \o f :
        H \in {0, 14, 23, 24}, M \in {5, 56, 60}, f \in {<<"9", "6", "7">>, <<"0">>}}
DateRaws == {None, ADatetime, BDatetime, Whole(5), Bool(TRUE)}
                \cup {Str(s) : s \in DateStrs \cup DatetimeStrs}
DateFormats == {<<"%m", ".", "%d", ".", "%Y">>,
                <<"%Y", "-", "%m", "-", "%d">>,
                <<"%d", ".", "%m", ".", "%Y", ":", "%H", ":", "%M", ":", "%S", ".", "%f">>,
                <<"u", "n", "u", "s", "e", "d">>,
                <<"%Q">>,
                <<>>}

\* phone strings whose i-th character is the digit i mod 10, so that a digit
\* tells its position; optionally one character replaced by another
PhoneBase(k) == [i \in 1..k |-> DigitChar(i % 10)]
PhoneOdd == {".", "x", VulgarHalf}
PhoneStrs ==
    {PhoneBase(k) : k \in MinPhoneLen..MaxPhoneLen}
    \cup UNION {{[PhoneBase(k) EXCEPT ![p] = c] : p \in {1, 4, 10, 11, 12} \cap 1..k, c \in PhoneOdd} :
                   k \in MinPhoneLen..MaxPhoneLen}
    \cup {<<>>,
          <<"<", "9", "2", "0", ">", "8", "8", "8", ".", "1", "2", "3", "4", "x", "5", "5", "3">>,
          <<"5", "5", "5", ".", "6", "8", "7", ".", "5", "8", "8", "0">>,
          <<"5", "5", "5", " ", "6", "8", "7", " ", "5", "8", "8", "0", "x", "9", "2", "3", "7">>}
PhoneRaws == {None, Whole(2125551234), Whole(-2125551234), Whole(5551234), Whole(0),
              Num(5), Bool(TRUE), Bool(FALSE), ADatetime}
                 \cup {Str(s) : s \in PhoneStrs}
Hashes(k) == [i \in 1..k |-> "#"]
PhoneFormats ==
    {Hashes(k) : k \in {0, 3} \cup (MinPhoneLen..MaxPhoneLen + 1)}
    \cup UNION {{[Hashes(k) EXCEPT ![p] = "."] : p \in {1, 4, 11} \cap 1..k} :
                   k \in MinPhoneLen..MaxPhoneLen + 1}
    \cup {<<"<", "#", "#", "#", ">", "#", "#", "#", ".", "#", "#", "#", "#", "x", "#", "#", "#">>,
          <<"#", "#", "#", ".", "#", "#", "#", ".", "#", "#", "#", "#", "x", "#", "#", "#", "#">>}

Idle ==
    /\ df = <<>> /\ col_types = <<>> /\ fids = <<>> /\ size = 0 /\ schema = <<>>
    /\ packed = <<>> /\ applied = <<>> /\ posts = <<>> /\ statuses = <<>>
    /\ records = <<>> /\ kwargs = <<>>
    /\ responses = <<>> /\ last = Unbound /\ info = <<>>
    /\ NoFiles

InitPack ==
    /\ mode = "pack" /\ pc = "ready"
    /\ call = NoCall /\ result = Pending
    /\ Idle

\* one call of a packer: what it was called with and what came back
Return(f, x, unit, format, r) ==
    /\ call' = [f |-> f, x |-> x, unit |-> unit, format |-> format]
    /\ result' = r
    /\ pc' = IF IsRaise(r) THEN "raised" ELSE "returned"

Ready == mode = "pack" /\ pc = "ready"
Rest_unchanged ==
    UNCHANGED <<mode, df, col_types, fids, size, schema, packed, applied, posts, statuses,
                records, kwargs, responses, last>>
    /\ UNCHANGED <<info, files>>

Call_pack_default ==
    /\ Ready
    /\ \E x \in DefaultRaws : Return("_pack_default", x, "", <<>>, _pack_default(x))
    /\ Rest_unchanged
Call_pack_duration ==
    /\ Ready
    /\ \E x \in DurationRaws, unit \in Units :
        Return("_pack_duration", x, unit, <<>>, _pack_duration(x, unit))
    /\ Rest_unchanged
Call_pack_date ==
    /\ Ready
    /\ \E x \in DateRaws, format \in DateFormats :
        Return("_pack_date", x, "", format, _pack_date(x, format))
    /\ Rest_unchanged
Call_pack_datetime ==
    /\ Ready
    /\ \E x \in DateRaws, format \in DateFormats :
        Return("_pack_datetime", x, "", format, _pack_datetime(x, format))
    /\ Rest_unchanged
Call_pack_phonenum ==
    /\ Ready
    /\ \E x \in PhoneRaws, format \in PhoneFormats :
        Return("_pack_phonenum", x, "", format, _pack_phonenum(x, format))
    /\ Rest_unchanged
Call_pack_phonenum_re ==
    /\ Ready
    /\ \E x \in PhoneRaws :
        Return("_pack_phonenum_re", x, "", <<>>, _pack_phonenum_re(x))
    /\ Rest_unchanged
\* (a str of digits times 1000 is an integer of thousands of digits: not drawn)
Call_parse_duration ==
    /\ Ready
    /\ \E x \in DurationRaws \ {Str(<<"1", "5">>), Str(<<"-", "2">>)}, unit \in Units :
        Return("parse_duration", x, unit, <<>>, parse_duration(x, "durr", unit))
    /\ Rest_unchanged

NextPack ==
    \/ Call_pack_default
    \/ Call_pack_duration
    \/ Call_pack_date
    \/ Call_pack_datetime
    \/ Call_pack_phonenum
    \/ Call_pack_phonenum_re
    \/ Call_parse_duration

SpecPack == InitPack /\ [][NextPack]_vars

-----------------------------------------------------------------------------
(* src/qbandas/headers.py: the header file of a directory *)

\* a name as Python holds it, one character a place
DEFAULT_USER == <<"u", "s", "e", "r">>
DotQuickbaseCom == <<".", "q", "u", "i", "c", "k", "b", "a", "s", "e", ".", "c", "o", "m">>
DemoHost == <<"d", "e", "m", "o">> \o DotQuickbaseCom
DEFAULT_HOST == <<"<">> \o DemoHost \o <<">">>
TokenPrefix(kind) == <<"Q", "B", "-">> \o kind \o <<"-", "T", "O", "K", "E", "N", " ">>
XToken(kind) ==
    TokenPrefix(kind)
    \o <<"x", "x", "x", "x", "x", "x", "_", "x", "x", "x", "_", "x", "_">>
    \o [i \in 1..26 |-> "x"]
UserToken == XToken(<<"U", "S", "E", "R">>)
TempToken == XToken(<<"T", "E", "M", "P">>)
DEFAULT_AUTH == <<"<">> \o UserToken \o <<">">>

\* the regular expressions of valid: \w, a literal at the front, and $,
\* which also matches before a newline that ends the string
Letters ==
    {"a", "b", "c", "d", "e", "f", "g", "h", "i", "j", "k", "l", "m", "n", "o", "p", "q",
     "r", "s", "t", "u", "v", "w", "x", "y", "z", "A", "B", "C", "D", "E", "F", "G", "H",
     "I", "J", "K", "L", "M", "N", "O", "P", "Q", "R", "S", "T", "U", "V", "W", "X", "Y",
     "Z"}
Word(c) == c \in Letters \cup Digits \cup {"_"}
StartsWith(s, p) == Len(s) >= Len(p) /\ SubSeq(s, 1, Len(p)) = p
After(s, n) == SubSeq(s, n + 1, Len(s))
AtEnd(s) == s = <<>> \/ s = <<"\n">>

\* re.match(r'^[\w\-]+\.quickbase\.com$', s)
MatchesHost(s) ==
    \E n \in 1..Len(s) :
        /\ \A i \in 1..n : Word(s[i]) \/ s[i] = "-"
        /\ StartsWith(After(s, n), DotQuickbaseCom)
        /\ AtEnd(After(s, n + Len(DotQuickbaseCom)))

\* \w{6}_\w{2,5}_\w_\w{20,30}$
MatchesKey(t) ==
    \E b \in 2..5, d \in 20..30 :
        /\ Len(t) >= 10 + b + d
        /\ \A i \in (1..6) \cup (8..7 + b) \cup {9 + b} \cup (11 + b..10 + b + d) : Word(t[i])
        /\ \A i \in {7, 8 + b, 10 + b} : t[i] = "_"
        /\ AtEnd(After(t, 10 + b + d))

\* re.match(r'^QB-(USER|TEMP)-TOKEN \w{6}_\w{2,5}_\w_\w{20,30}$', s)
MatchesToken(s) ==
    \E kind \in {<<"U", "S", "E", "R">>, <<"T", "E", "M", "P">>} :
        /\ StartsWith(s, TokenPrefix(kind))
        /\ MatchesKey(After(s, Len(TokenPrefix(kind))))

\* the header file: Absent, text that is not JSON, or the object it holds
NotJson == [text |-> "{"]
HeaderKeys == {"QB-Realm-Hostname", "User-Agent", "Authorization"}
Headers(host, user, auth) ==
    [k \in HeaderKeys |-> CASE k = "QB-Realm-Hostname" -> host
                            [] k = "User-Agent" -> user
                            [] k = "Authorization" -> auth]

exists(file) == Bool(file # Absent)

\* open() raises on a file that is not there, json.load on one that is not JSON
valid(file) ==
    IF file = Absent THEN Raise("FileNotFoundError")
    ELSE IF file = NotJson THEN Raise("JSONDecodeError")
    ELSE IF DOMAIN file # HeaderKeys THEN Bool(FALSE)
    ELSE IF ~MatchesHost(file["QB-Realm-Hostname"]) THEN Bool(FALSE)
    ELSE IF ~MatchesToken(file["Authorization"]) THEN Bool(FALSE)
    ELSE Bool(TRUE)

\* if (input_ := input()): the line typed replaces the argument unless empty
Typed(input_, given) == IF input_ # <<>> THEN input_ ELSE given

\* what create dumps: the arguments, or what was typed at the three prompts
Dumped(interactive, host, user, auth, typed) ==
    IF interactive
    THEN Headers(Typed(typed[1], host), Typed(typed[2], user), Typed(typed[3], auth))
    ELSE Headers(host, user, auth)

\* create that repairs an invalid file whether or not repair was asked for
create_repairs_unasked(file, interactive, repair, host, user, auth, typed) ==
    IF exists(file) = Bool(TRUE) /\ IsRaise(valid(file))
    THEN [file |-> file, result |-> valid(file)]
    ELSE IF exists(file) = Bool(TRUE) /\ valid(file) = Bool(TRUE)
    THEN [file |-> file, result |-> None]
    ELSE [file |-> Dumped(interactive, host, user, auth, typed), result |-> None]

\* create: the file it leaves and None, or what valid raised
create(file, interactive, repair, host, user, auth, typed) ==
    IF exists(file) = Bool(TRUE) /\ IsRaise(valid(file))
    THEN [file |-> file, result |-> valid(file)]
    ELSE IF exists(file) = Bool(TRUE) /\ (valid(file) = Bool(TRUE) \/ ~repair)
    THEN [file |-> file, result |-> None]
    ELSE [file |-> Dumped(interactive, host, user, auth, typed), result |-> None]

\* the arguments the calls are made with
Hosts == {DEFAULT_HOST, DemoHost}
Auths == {DEFAULT_AUTH, UserToken}
NoInput == <<<<>>, <<>>, <<>>>>
Inputs == {NoInput, <<DemoHost, <<>>, TempToken>>, <<<<>>, <<"m", "e">>, <<>>>>}
\* what an editor may leave in the file
Edited ==
    {NotJson,
     [k \in {"QB-Realm-Hostname", "User-Agent"} |-> DemoHost],
     Headers(DemoHost \o <<"\n">>, DEFAULT_USER, TempToken),
     Headers(<<"d", "e", "-", "m", "o", "_", "1">> \o DotQuickbaseCom, DEFAULT_USER,
             <<"Q", "B", "-", "T", "E", "M", "P", "-", "T", "O", "K", "E", "N", " ">>
             \o <<"a", "b", "c", "1", "2", "3", "_", "x", "y", "_", "9", "_">>
             \o [i \in 1..20 |-> "k"]),
     Headers(DemoHost, DEFAULT_USER, After(UserToken, 1))}

InitHeaders ==
    /\ mode = "headers" /\ pc = "ready"
    /\ call = NoCall /\ result = Pending
    /\ Idle

InHeaders == mode = "headers"
Frames_unchanged ==
    UNCHANGED <<mode, pc, frames, profile_files, supplied, schema_file, table_file>>

\* create returned or raised
CreateEnds(r) ==
    /\ header_file' = r.file
    /\ result' = r.result

Call_create ==
    /\ InHeaders
    /\ \E interactive \in BOOLEAN, repair \in BOOLEAN, host \in Hosts, auth \in Auths :
         \E typed \in IF interactive THEN Inputs ELSE {NoInput} :
            /\ CreateEnds(create(header_file, interactive, repair, host, DEFAULT_USER,
                                 auth, typed))
            /\ call' = [f |-> "create", interactive |-> interactive, repair |-> repair,
                        host |-> host, user |-> DEFAULT_USER, auth |-> auth,
                        typed |-> typed, before |-> header_file]
    /\ Frames_unchanged

Call_valid ==
    /\ InHeaders
    /\ result' = valid(header_file)
    /\ call' = [f |-> "valid", before |-> header_file]
    /\ UNCHANGED header_file
    /\ Frames_unchanged

Call_exists ==
    /\ InHeaders
    /\ result' = exists(header_file)
    /\ call' = [f |-> "exists", before |-> header_file]
    /\ UNCHANGED header_file
    /\ Frames_unchanged

\* the tests' setUp and tearDown: os.remove(headers.HEADER_FILE_NAME)
Remove ==
    /\ InHeaders
    /\ header_file # Absent
    /\ header_file' = Absent
    /\ result' = None
    /\ call' = [f |-> "os.remove", before |-> header_file]
    /\ Frames_unchanged

\* the file is edited by hand between two calls
Edit ==
    /\ InHeaders
    /\ \E text \in Edited : header_file' = text
    /\ result' = None
    /\ call' = [f |-> "edit", before |-> header_file]
    /\ Frames_unchanged

NextHeaders ==
    \/ Call_create
    \/ Call_valid
    \/ Call_exists
    \/ Remove
    \/ Edit

SpecHeaders == InitHeaders /\ [][NextHeaders]_vars

-----------------------------------------------------------------------------
(* src/qbandas/profiles.py: the profiles directory *)

DotJson == <<".", "j", "s", "o", "n">>

\* _get_profile_path: the file of a profile, as its name in the directory
_get_profile_path(profile) == profile \o DotJson

\* _get_headers: the object in the profile's file, an empty dict without one
_get_headers(stored, profile) ==
    IF _get_profile_path(profile) \in DOMAIN stored
    THEN stored[_get_profile_path(profile)]
    ELSE <<>>

\* Python's truth of an argument that is None or a str
Truthy(v) == v # None /\ v # Str(<<>>)

\* set_profile: the dict built from the arguments, None where there is nothing
Generated(profile, host, user, auth, temp_token, auto_user) ==
    [k \in HeaderKeys |->
        CASE k = "QB-Realm-Hostname" ->
                IF Truthy(host) THEN Str(host.str \o DotQuickbaseCom) ELSE None
          [] k = "User-Agent" ->
                IF auto_user /\ ~Truthy(user) THEN Str(profile) ELSE user
          [] k = "Authorization" ->
                IF Truthy(auth)
                THEN Str(TokenPrefix(IF temp_token THEN <<"T", "E", "M", "P">>
                                     ELSE <<"U", "S", "E", "R">>) \o auth.str)
                ELSE None]

\* current | generated, once the entries that are not true are removed from both
Merged(current, generated) ==
    [k \in {h \in HeaderKeys : \/ Truthy(generated[h])
                               \/ h \in DOMAIN current /\ Truthy(current[h])} |->
        IF Truthy(generated[k]) THEN generated[k] ELSE current[k]]

\* the directory with file name holding content
Written(stored, name, content) ==
    [n \in DOMAIN stored \cup {name} |-> IF n = name THEN content ELSE stored[n]]

\* set_profile: the directory it leaves
set_profile(stored, profile, host, user, auth, temp_token, auto_user) ==
    Written(stored, _get_profile_path(profile),
            Merged(_get_headers(stored, profile),
                   Generated(profile, host, user, auth, temp_token, auto_user)))

\* re.sub(r'\.json', '', x): every occurrence is removed, left to right
RECURSIVE re_sub_json(_)
re_sub_json(x) ==
    IF x = <<>> THEN <<>>
    ELSE IF StartsWith(x, DotJson) THEN re_sub_json(After(x, Len(DotJson)))
    ELSE <<Head(x)>> \o re_sub_json(Tail(x))

\* os.listdir: the names of the directory, in an order of its own choosing
Listings(stored) ==
    {o \in [1..Cardinality(DOMAIN stored) -> DOMAIN stored] :
        \A i, j \in DOMAIN o : o[i] = o[j] => i = j}

\* list_profiles, given what os.listdir returned
list_profiles(listed) == [i \in DOMAIN listed |-> re_sub_json(listed[i])]

\* _del_profile: the directory it leaves
_del_profile(stored, profile) ==
    [n \in DOMAIN stored \ {_get_profile_path(profile)} |-> stored[n]]

\* the arguments the calls are made with: a name, and a name with .json in it
P1 == <<"p", "1">>
ProfileNames == {P1, P1 \o DotJson}
Maybe(v) == {None, Str(v)}
Sample == <<"s", "a", "m", "p", "l", "e">>
Key12345 == <<"1", "2", "3", "4", "5">>

\* supplied: what the calls so far gave for the profile, the latest first
Noted(before, profile, host, user, auth, temp_token) ==
    [n \in DOMAIN before \cup {profile} |->
        IF n # profile
        THEN before[n]
        ELSE IF profile \in DOMAIN before
        THEN [host |-> IF host # None THEN host ELSE before[n].host,
              user |-> IF user # None THEN user ELSE before[n].user,
              auth |-> IF auth # None THEN auth ELSE before[n].auth,
              temp_token |-> IF auth # None THEN temp_token ELSE before[n].temp_token]
        ELSE [host |-> host, user |-> user, auth |-> auth, temp_token |-> temp_token]]

InitProfiles ==
    /\ mode = "profiles" /\ pc = "ready"
    /\ call = NoCall /\ result = Pending
    /\ Idle

InProfiles == mode = "profiles"
Others_unchanged == UNCHANGED <<mode, pc, frames, header_file, schema_file, table_file>>

Call_set_profile ==
    /\ InProfiles
    /\ \E profile \in ProfileNames, host \in Maybe(Sample), user \in Maybe(DEFAULT_USER),
          auth \in Maybe(Key12345), temp_token \in BOOLEAN, auto_user \in BOOLEAN :
         /\ profile_files' = set_profile(profile_files, profile, host, user, auth,
                                         temp_token, auto_user)
         /\ supplied' = Noted(supplied, profile, host, user, auth, temp_token)
         /\ call' = [f |-> "set_profile", profile |-> profile, host |-> host,
                     user |-> user, auth |-> auth, temp_token |-> temp_token,
                     auto_user |-> auto_user, before |-> profile_files]
    /\ result' = None
    /\ Others_unchanged

Call_list_profiles ==
    /\ InProfiles
    /\ \E listed \in Listings(profile_files) : result' = list_profiles(listed)
    /\ call' = [f |-> "list_profiles", before |-> profile_files]
    /\ UNCHANGED <<profile_files, supplied>>
    /\ Others_unchanged

Call_del_profile ==
    /\ InProfiles
    /\ \E profile \in ProfileNames \cup {Sample} :
         /\ profile_files' = _del_profile(profile_files, profile)
         /\ supplied' = [n \in DOMAIN supplied \ {profile} |-> supplied[n]]
         /\ call' = [f |-> "_del_profile", profile |-> profile, before |-> profile_files]
    /\ result' = None
    /\ Others_unchanged

NextProfiles ==
    \/ Call_set_profile
    \/ Call_list_profiles
    \/ Call_del_profile

SpecProfiles == InitProfiles /\ [][NextProfiles]_vars

-----------------------------------------------------------------------------
(* src/qbandas/schema.py and src/qbandas/schemas.py: the schema files *)

\* Python's a | b of two dicts: b's entries over a's
Union(a, b) == [k \in DOMAIN a \cup DOMAIN b |-> IF k \in DOMAIN b THEN b[k] ELSE a[k]]

\* schema[field]['args'] = v
WithArgs(sch, field, v) ==
    [n \in DOMAIN schema |->
        IF n # field THEN sch[n]
        ELSE [k \in DOMAIN sch[n] \cup {"args"} |->
                 IF k = "args" THEN v ELSE sch[n][k]]]

\* the args add_args stores for a field: kwargs, over the args it has if any
Appended(entry, kw) ==
    IF "args" \notin DOMAIN entry THEN kw ELSE Union(entry["args"], kw)

\* the loop that skips a field that is not in the schema
RECURSIVE ArgsLoop_skips_missing(_, _, _, _)
ArgsLoop_skips_missing(sch, args, kw, add) ==
    IF args = <<>> THEN sch
    ELSE IF Head(args) \notin DOMAIN sch
    THEN ArgsLoop_skips_missing(sch, Tail(args), kw, add)
    ELSE IF Head(args) = "_DBID_" THEN RaiseCol("TypeError", Head(args))
    ELSE ArgsLoop_skips_missing(
             WithArgs(sch, Head(args),
                      IF add THEN Appended(sch[Head(args)], kw) ELSE kw),
             Tail(args), kw, add)

\* for field in args: of add_args (add) and of set_args; the schema in
\* memory when the loop ends, or what it raised. The entry _DBID_ is a str,
\* which takes no item assignment.
RECURSIVE ArgsLoop(_, _, _, _)
ArgsLoop(sch, args, kw, add) ==
    IF args = <<>> THEN sch
    ELSE IF Head(args) \notin DOMAIN sch THEN RaiseCol("Exception", Head(args))
    ELSE IF Head(args) = "_DBID_" THEN RaiseCol("TypeError", Head(args))
    ELSE ArgsLoop(WithArgs(sch, Head(args),
                           IF add THEN Appended(sch[Head(args)], kw) ELSE kw),
                  Tail(args), kw, add)

\* the file is written after the loop only
Dump(file, r) ==
    IF IsRaise(r) THEN [file |-> file, result |-> r] ELSE [file |-> r, result |-> None]

add_args(file, args, kw) ==
    IF file = Absent
    THEN [file |-> file, result |-> Raise("FileNotFoundError")]
    ELSE Dump(file, ArgsLoop(file, args, kw, TRUE))

set_args(file, args, kw) ==
    IF file = Absent
    THEN [file |-> file, result |-> Raise("FileNotFoundError")]
    ELSE Dump(file, ArgsLoop(file, args, kw, FALSE))

\* schema.pull: what it dumps for a table with a duration and a date field
Pulled ==
    [n \in {"_DBID_", "a", "b"} |->
        CASE n = "_DBID_" -> [dbid |-> "bb7f543"]
          [] n = "a" -> [id |-> 6, type |-> "duration"]
          [] n = "b" -> [id |-> 7, type |-> "date"]]

\* schemas.py: _read_schema gives (None, {}) without a file
_read_schema(file) ==
    IF file = Absent THEN [dbid |-> "", fields |-> <<>>] ELSE file

\* _write_schema: data = {'dbid': dbid, 'fields': fields}
_write_schema(dbid, fields) == [dbid |-> dbid, fields |-> fields]

\* a list or a tuple of field names, or None
ListOf(names) == [list |-> names]
TupleOf(names) == [tuple |-> names]
\* (fields if fields else []) + fields_: a list plus the tuple fields_ is a
\* TypeError, and so is the [] that stands in for None or for an empty tuple
Joined(fields, fields_) ==
    IF DOMAIN fields = {"tuple"} /\ fields.tuple # <<>>
    THEN TupleOf(fields.tuple \o fields_)
    ELSE Raise("TypeError")

\* the fields of a schema file are a dict, or the list a call left there
IsNames(x) == DOMAIN x = {"list"}
Among(field, sch) ==
    IF IsNames(sch) THEN \E i \in DOMAIN sch.list : sch.list[i] = field
    ELSE field \in DOMAIN sch

\* for field in fields: of add_schema_args (add) and of set_schema_args
RECURSIVE SchemaArgsLoop(_, _, _, _)
SchemaArgsLoop(sch, names, arguments, add) ==
    IF names = <<>> THEN sch
    ELSE IF ~Among(Head(names), sch) THEN RaiseCol("ValueError", Head(names))
    ELSE IF IsNames(sch) THEN RaiseCol("TypeError", Head(names))
    ELSE SchemaArgsLoop(
             WithArgs(sch, Head(names),
                      IF add THEN Appended(sch[Head(names)], arguments)
                      ELSE arguments),
             Tail(names), arguments, add)

\* _write_schema(table_name, dbid, fields): the names are written, as the
\* list json.dump makes of them, where the schema was meant
SchemaDump(file, names, r) ==
    IF IsRaise(r) THEN [file |-> file, result |-> r]
    ELSE [file |-> _write_schema(_read_schema(file).dbid, ListOf(names)), result |-> None]

SchemaArgs(file, joined, arguments, add) ==
    IF _read_schema(file).dbid = "" THEN [file |-> file, result |-> Raise("ValueError")]
    ELSE IF IsRaise(joined) THEN [file |-> file, result |-> joined]
    ELSE SchemaDump(file, joined.tuple,
                    SchemaArgsLoop(_read_schema(file).fields, joined.tuple, arguments, add))

add_schema_args(file, fields, arguments, fields_, arguments_) ==
    SchemaArgs(file, Joined(fields, fields_), Union(arguments, arguments_), TRUE)

set_schema_args(file, fields, arguments, fields_, arguments_) ==
    SchemaArgs(file, Joined(fields, fields_), Union(arguments, arguments_), FALSE)

\* fetch_schema: what it writes for the same table
Fetched ==
    _write_schema("bb7f543", [n \in {"a", "b"} |->
                                 IF n = "a" THEN [id |-> 6, type |-> "duration"]
                                 ELSE [id |-> 7, type |-> "date"]])

\* the arguments the calls are made with
MaxNamed == 2
FieldNames == {"a", "b", "c", "_DBID_"}
Named == UNION {[1..n -> FieldNames] : n \in 0..MaxNamed}
NoArgs == <<>>
ArgDicts ==
    {NoArgs, [unit |-> "seconds"], [unit |-> "milliseconds", format |-> "%d.%m.%Y"]}
\* None stands as the empty list: both are false and both become []
FieldLists ==
    {ListOf(<<>>), ListOf(<<"a">>), ListOf(<<"a", "b">>)} \cup {TupleOf(names) : names \in Named}

InitSchemas ==
    /\ mode = "schemas" /\ pc = "ready"
    /\ call = NoCall /\ result = Pending
    /\ Idle

InSchemas == mode = "schemas"
Schemas_unchanged == UNCHANGED <<mode, pc, frames, header_file, profile_files, supplied>>

\* schema.pull wrote the schema file
Pull ==
    /\ InSchemas
    /\ schema_file' = Pulled
    /\ result' = None
    /\ call' = [f |-> "pull", before |-> schema_file]
    /\ UNCHANGED table_file
    /\ Schemas_unchanged

\* fetch_schema wrote the schema file
Fetch ==
    /\ InSchemas
    /\ table_file' = Fetched
    /\ result' = None
    /\ call' = [f |-> "fetch_schema", before |-> table_file]
    /\ UNCHANGED schema_file
    /\ Schemas_unchanged

\* add_args or set_args returned or raised
ArgsEnd(r) ==
    /\ schema_file' = r.file
    /\ result' = r.result

Call_add_args ==
    /\ InSchemas
    /\ \E args \in Named, kw \in ArgDicts :
         /\ ArgsEnd(add_args(schema_file, args, kw))
         /\ call' = [f |-> "add_args", args |-> args, kwargs |-> kw,
                     before |-> schema_file]
    /\ UNCHANGED table_file
    /\ Schemas_unchanged

Call_set_args ==
    /\ InSchemas
    /\ \E args \in Named, kw \in ArgDicts :
         /\ ArgsEnd(set_args(schema_file, args, kw))
         /\ call' = [f |-> "set_args", args |-> args, kwargs |-> kw,
                     before |-> schema_file]
    /\ UNCHANGED table_file
    /\ Schemas_unchanged

\* add_schema_args or set_schema_args returned or raised
SchemaArgsEnd(r) ==
    /\ table_file' = r.file
    /\ result' = r.result

Call_add_schema_args ==
    /\ InSchemas
    /\ \E fields \in FieldLists, arguments \in ArgDicts :
         /\ SchemaArgsEnd(add_schema_args(table_file, fields, arguments, <<>>, NoArgs))
         /\ call' = [f |-> "add_schema_args", fields |-> fields,
                     arguments |-> arguments, before |-> table_file]
    /\ UNCHANGED schema_file
    /\ Schemas_unchanged

Call_set_schema_args ==
    /\ InSchemas
    /\ \E fields \in FieldLists, arguments \in ArgDicts :
         /\ SchemaArgsEnd(set_schema_args(table_file, fields, arguments, <<>>, NoArgs))
         /\ call' = [f |-> "set_schema_args", fields |-> fields,
                     arguments |-> arguments, before |-> table_file]
    /\ UNCHANGED schema_file
    /\ Schemas_unchanged

NextSchemas ==
    \/ Pull
    \/ Fetch
    \/ Call_add_args
    \/ Call_set_args
    \/ Call_add_schema_args
    \/ Call_set_schema_args

SpecSchemas == InitSchemas /\ [][NextSchemas]_vars

-----------------------------------------------------------------------------
(* src/src/qbandas/__init__.py: upload(df, schema, info) called on the      *)
(* caller's info dict, once and then again with the same dict.              *)

\* del m[k]
Without(m, k) == [x \in DOMAIN m \ {k} |-> m[x]]

\* size=info["Payload-Size"] if the key is there, else full_transform's default
SizeOf(inf) == IF "Payload-Size" \in DOMAIN inf THEN inf["Payload-Size"] ELSE DefaultSize

\* mutant: upload works on a copy of info
InfoAfter_copy(inf, o) == inf

\* info after the if / else: full_transform has raised, and nothing is
\* deleted, or it has returned and del info["Payload-Size"] has run
InfoAfter(inf, o) ==
    IF "Payload-Size" \in DOMAIN inf /\ o.pc # "raised"
    THEN Without(inf, "Payload-Size")
    ELSE inf

MaxUploads == 2      \* calls of upload with the one info dict

Required ==
    [k \in {"QB-Realm-Hostname", "Authorization", "DBID"} |->
        CASE k = "QB-Realm-Hostname" -> "demo.quickbase.com"
          [] k = "Authorization" -> "QB-USER-TOKEN t"
          [] k = "DBID" -> "abcdef123"]
With(m, k, v) == [x \in DOMAIN m \cup {k} |-> IF x = k THEN v ELSE m[x]]
Optional(m) == {m, With(m, "mergeFieldId", 3)}
Infos ==
    Optional(Required)
        \cup UNION {Optional(With(Required, "Payload-Size", n)) : n \in {-1, 0} \cup 1..MaxSize}

\* dataframes of both columns, no entry null
InfoFrames == {d \in Frames : Len(d) = 2 /\ \A k \in 1..2, i \in 1..Rows(d) : d[k].cells[i] # None}
\* schemas: both columns sent, the first dropped, the second without its unit
InfoSchemas ==
    {<<Item("nums", Numeric6), Item("durr", Seconds9)>>,
     <<Item("nums", SDrop), Item("durr", Seconds9)>>,
     <<Item("nums", Numeric6), Item("durr", SStr("duration"))>>}

InitInfo ==
    /\ mode = "idle" /\ pc = "start"
    /\ df \in InfoFrames /\ info \in Infos
    /\ col_types = <<>> /\ fids = <<>> /\ size = 0 /\ schema = <<>>
    /\ packed = <<>> /\ result = Pending /\ call = NoCall
    /\ applied = <<>> /\ posts = <<>> /\ statuses = <<>>
    /\ records = <<>> /\ kwargs = <<>>
    /\ responses = <<>> /\ last = Unbound
    /\ NoFiles

\* the sizes the calls so far have handed to full_transform
SizesSoFar == IF call = NoCall THEN <<>> ELSE call.sizes

\* the if / else has ended with the outcome o of full_transform
InfoEnds(o) ==
    /\ FullTransformEnds(o)
    /\ info' = InfoAfter(info, o)

\* upload(df, schema, info) up to its loop; a second call starts when the
\* first has returned
Call_upload ==
    /\ \/ mode = "idle" /\ pc = "start"
       \/ mode = "send" /\ pc = "returned" /\ Len(call.sizes) < MaxUploads
    /\ mode' = "full"
    /\ \E sch \in InfoSchemas :
        /\ schema' = sch
        /\ InfoEnds(full_transform(df, sch, SizeOf(info)))
    /\ size' = SizeOf(info)
    /\ call' = [f |-> "upload", before |-> info, sizes |-> Append(SizesSoFar, SizeOf(info))]
    /\ posts' = <<>> /\ statuses' = <<>> /\ responses' = <<>> /\ last' = Unbound
    /\ UNCHANGED <<df, records, kwargs, files>>

NextInfo ==
    \/ Call_upload
    \/ SendStart
    \/ Send
    \/ SendReturn

SpecInfo == InitInfo /\ [][NextInfo]_vars

-----------------------------------------------------------------------------
(* The packers' properties, under SpecPack *)

Returned == mode = "pack" /\ pc # "ready"

\* C5: under each of _pack_default, _pack_duration, _pack_date,
\* _pack_datetime and _pack_phonenum a null raw value yields None and never
\* raises, whatever the unit, the date format or the phone template is.
C5_NullPacksToNone ==
    (/\ Returned
     /\ call.f \in {"_pack_default", "_pack_duration", "_pack_date",
                    "_pack_datetime", "_pack_phonenum"}
     /\ isna(call.x))
        => result = None

\* a null duration packed under a unit that is neither seconds nor milliseconds
C5_Witness ==
    /\ Returned /\ call.f = "_pack_duration" /\ isna(call.x)
    /\ call.unit \notin {"seconds", "milliseconds"}
    /\ result = None

\* d * 1000, for a number d
TimesThousand(d) == Whole((IF d.neg THEN -1 ELSE 1) * (d.whole * 1000 + d.tenth * 100))

\* C6 as stated: for every non-null numeric d, _pack_duration(d, 'seconds')
\* is {'value': d*1000} and _pack_duration(d, 'milliseconds') is {'value': d}.
C6_Original ==
    (Returned /\ call.f = "_pack_duration" /\ IsNum(call.x))
        => /\ call.unit = "seconds" => result = [value |-> TimesThousand(call.x)]
           /\ call.unit = "milliseconds" => result = [value |-> call.x]

\* C6 amended: d is first truncated toward zero to an integer, so the results
\* are {'value': int(d)*1000} and {'value': int(d)}; they are d*1000 and d
\* when d is an integer.
C6_TruncatedFirst ==
    (Returned /\ call.f = "_pack_duration" /\ IsNum(call.x))
        => LET i == IF call.x.neg THEN -call.x.whole ELSE call.x.whole IN
           /\ call.unit = "seconds" => result = [value |-> Whole(i * 1000)]
           /\ call.unit = "milliseconds" => result = [value |-> Whole(i)]
           /\ (call.x.tenth = 0 /\ call.unit = "seconds")
                  => result = [value |-> TimesThousand(call.x)]
           /\ (call.x.tenth = 0 /\ call.unit = "milliseconds")
                  => result = [value |-> call.x]

\* 8.3 seconds packed
C6_Witness ==
    /\ Returned /\ call.f = "_pack_duration" /\ call.x = Num(83)
    /\ call.unit = "seconds" /\ result = [value |-> Whole(8000)]

\* the characters of s at the positions P, by increasing position
AtPositions(s, P) ==
    LET nth(k) == CHOOSE i \in P : Cardinality({j \in P : j < i}) = k - 1
    IN [k \in 1..Cardinality(P) |-> s[nth(k)]]

\* the phone packer got as far as collecting characters from a str
C7_Collects ==
    /\ Returned /\ IsStr(call.x)
    /\ \/ call.f = "_pack_phonenum" /\ Len(call.x.str) <= Len(call.format)
       \/ call.f = "_pack_phonenum_re" /\ call.x.str # <<>>

\* what it collected: the raw characters under the template's '#', or the
\* raw string's digits when there is no template
C7_Collected ==
    IF call.f = "_pack_phonenum"
    THEN AtPositions(call.x.str, {i \in 1..Len(call.x.str) : call.format[i] = "#"})
    ELSE AtPositions(call.x.str, {i \in 1..Len(call.x.str) : call.x.str[i] \in Digits})

C7_Expected(y) ==
    <<"(", y[1], y[2], y[3], ")", " ", y[4], y[5], y[6], "-", y[7], y[8], y[9], y[10]>>
        \o (IF Len(y) > 10 THEN <<" ", "x">> \o [k \in 1..(Len(y) - 10) |-> y[10 + k]] ELSE <<>>)

C8_RaisesOnBadPhone ==
    (/\ Returned /\ call.f = "_pack_phonenum" /\ IsStr(call.x)
     /\ \/ Len(call.x.str) > Len(call.format)
        \/ Len(C7_Collected) < 10
        \/ ~AllDigits(C7_Collected))
        => IsRaise(result)

-----------------------------------------------------------------------------
(* The properties of transform, payloads, full_transform and upload, under Spec *)

RECURSIVE Flatten(_)
Flatten(ss) == IF ss = <<>> THEN <<>> ELSE Head(ss) \o Flatten(Tail(ss))

TransformReturned == mode = "transform" /\ pc = "transformed"
PayloadsReturned == mode \in {"payloads", "full"} /\ pc = "done"

\* C1: for every size n >= 1, the batches payloads returns, concatenated in
\* their order, are the record list of the packed dataframe: record i is the
\* record of row i, none left out, repeated or moved (the empty list included).
C1_ConcatenationRebuilds ==
    (PayloadsReturned /\ size >= 1) =>
        /\ Len(Flatten(result.batches)) = Rows(packed)
        /\ \A i \in 1..Rows(packed) : Flatten(result.batches)[i] = RowToDict(packed, fids, i)

\* three records in batches of two: a full batch and the remainder
C1_Witness ==
    /\ PayloadsReturned /\ size = 2 /\ Rows(packed) = 3
    /\ Len(result.batches) = 2 /\ Len(result.batches[2]) = 1

\* the lengths lens of the batches made of total records with size n
BatchLengthsOk(lens, n) ==
    /\ \A j \in 1..Len(lens) : 1 <= lens[j] /\ lens[j] <= n
    /\ \A j \in 1..(Len(lens) - 1) : lens[j] = n
AllBatched(lens, n, total) ==
    /\ total = 0 => lens = <<>>
    /\ total = n => lens = <<n>>

\* C2: for every size n >= 1, every batch of payloads and every request body
\* of upload holds 1..n records and every batch but the last holds n; no
\* records give no batch, and exactly n records give one batch of n.
C2_BatchSizes ==
    /\ (PayloadsReturned /\ size >= 1) =>
          /\ BatchLengthsOk([j \in 1..Len(result.batches) |-> Len(result.batches[j])], size)
          /\ AllBatched([j \in 1..Len(result.batches) |-> Len(result.batches[j])],
                        size, Rows(packed))
    /\ (mode = "upload" /\ size >= 1) =>
          /\ BatchLengthsOk([j \in 1..Len(posts) |-> Len(posts[j].data)], size)
          /\ pc = "done" =>
                AllBatched([j \in 1..Len(posts) |-> Len(posts[j].data)], size, Len(records))

\* exactly n = 2 records: one batch of two
C2_Witness ==
    /\ PayloadsReturned /\ size = 2 /\ Rows(packed) = 2
    /\ Len(result.batches) = 1 /\ Len(result.batches[1]) = 2

\* the dataframe {nums: [1, None], durr: [5, 10]} and its declarations
ExampleFrame ==
    <<Column("nums", <<Whole(1), None>>), Column("durr", <<Whole(5), Whole(10)>>)>>
ExampleRun ==
    /\ df = ExampleFrame /\ mode = "payloads" /\ pc = "done"
    /\ col_types = [c \in {"nums", "durr"} |->
                       IF c = "nums" THEN Bare("numeric") ELSE Tuple("duration", Seconds)]
    /\ fids = [c \in {"nums", "durr"} |-> IF c = "nums" THEN "6" ELSE "9"]
    /\ size = DefaultSize

\* the record list emitted: of payloads / full_transform, or of upload
Emitted ==
    IF PayloadsReturned /\ size >= 1 THEN Flatten(result.batches)
    ELSE IF mode = "upload" THEN records
    ELSE <<>>

\* the packed column that key k of record i comes from
SourceOf(i, key) == {k \in 1..Len(packed) : fids[packed[k].name] = key}

C4_KeysArePresentFids ==
    /\ Len(Emitted) > 0 => Len(Emitted) = Rows(packed)
    /\ \A i \in 1..Len(Emitted) :
          DOMAIN Emitted[i] = {fids[packed[k].name] : k \in {j \in 1..Len(packed) : packed[j].cells[i] # None}}

\* upload built a record of one key from a row of two columns, one of them None
C4_Witness ==
    /\ mode = "upload" /\ pc = "done" /\ Len(packed) = 2
    /\ \E i \in 1..Len(records) :
          /\ DOMAIN records[i] = {"9"}
          /\ \E k \in 1..2 : packed[k].cells[i] = None

\* the df column of a name
Raw(name) == df[CHOOSE k \in 1..Len(df) : df[k].name = name]
NotDropped(name) == col_types[name] # Bare("drop")

\* C9: when transform returns, its columns are df's columns that are not
\* declared 'drop', in df's order; each has one entry per row of df, entry i
\* being the bound packer's result for raw entry i, and each entry is None or
\* a dict with the single key 'value'.
C9_TransformOutput ==
    TransformReturned =>
        /\ [k \in 1..Len(packed) |-> packed[k].name]
              = SelectSeq([k \in 1..Len(df) |-> df[k].name], NotDropped)
        /\ \A k \in 1..Len(packed) :
              /\ Len(packed[k].cells) = Rows(df)
              /\ \A i \in 1..Rows(df) :
                    /\ packed[k].cells[i]
                          = ApplyBound(col_types[packed[k].name].type, col_types[packed[k].name].args,
                                       packed[k].name, Raw(packed[k].name).cells[i])
                    /\ \/ packed[k].cells[i] = None
                       \/ DOMAIN packed[k].cells[i] = {"value"}

\* one of two columns dropped, three rows packed, one of them None
C9_Witness ==
    /\ TransformReturned /\ Len(df) = 2 /\ Len(packed) = 1 /\ Rows(df) = 3
    /\ packed[1].cells[2] = None /\ packed[1].cells[3] # None

\* the columns of df without an entry in col_types
Undeclared == {k \in 1..Len(df) : df[k].name \notin DOMAIN col_types}
FirstUndeclared == CHOOSE k \in Undeclared : \A j \in Undeclared : k <= j
Missing(k) == RaiseCol("is missing in col_types", df[k].name)

\* column j is dropped, or has a valid declaration under which every entry packs
PacksCleanly(j) ==
    \/ col_types[df[j].name] = Bare("drop")
    \/ /\ col_types[df[j].name].type \in DefaultTypes \cup ArgTypes
       /\ col_types[df[j].name].type \in ArgTypes => col_types[df[j].name].args # <<>>
       /\ \A i \in 1..Rows(df) :
             ~IsRaise(ApplyBound(col_types[df[j].name].type, col_types[df[j].name].args,
                                 df[j].name, df[j].cells[i]))

\* C10 as stated: when some column has no entry in col_types, transform raises
\* the error that names a column without an entry, and returns no dataframe.
C10_Original ==
    (mode = "transform" /\ Undeclared # {}) =>
        /\ pc = "raised" /\ packed = <<>>
        /\ \E k \in Undeclared : result = Missing(k)

\* C10: when some column has no entry in col_types, transform raises and
\* returns no dataframe; the error names the first such column of df when every
\* column before it is dropped or packs without error, and is the error of an
\* earlier column otherwise.
C10_FirstUndeclaredRaises ==
    (mode = "transform" /\ Undeclared # {}) =>
        /\ pc = "raised" /\ packed = <<>> /\ IsRaise(result)
        /\ IF \A j \in 1..(FirstUndeclared - 1) : PacksCleanly(j)
           THEN result = Missing(FirstUndeclared)
           ELSE \E j \in 1..(FirstUndeclared - 1) : ~PacksCleanly(j) /\ result.col = df[j].name

\* the first column was packed, the second has no entry
C10_Witness ==
    /\ mode = "transform" /\ pc = "raised" /\ Len(df) = 2
    /\ Undeclared = {2} /\ result = Missing(2)
    /\ Len(applied) = Rows(df) /\ Rows(df) > 0

\* the columns declared with a type that takes an argument, without one
Argless ==
    {k \in 1..Len(df) : /\ df[k].name \in DOMAIN col_types
                        /\ col_types[df[k].name].type \in ArgTypes
                        /\ col_types[df[k].name].args = <<>>}
NeedsArgument(k) == RaiseCol("specify an argument", df[k].name)

\* every column before k has a declaration, and is dropped or packs without error
CleanBefore(k) ==
    \A j \in 1..(k - 1) : df[j].name \in DOMAIN col_types /\ PacksCleanly(j)

\* C11 as stated: a column declared duration, date, datetime or phone without
\* its argument makes transform raise the error that names this column, with
\* no packer applied to a cell of it and no dataframe returned.
C11_Original ==
    mode = "transform" =>
        \A k \in Argless :
            /\ pc = "raised" /\ packed = <<>>
            /\ result = NeedsArgument(k)
            /\ \A a \in 1..Len(applied) : applied[a][1] # df[k].name

\* C11: a column declared duration, date, datetime or phone without its
\* argument makes transform raise and return no dataframe, with no packer
\* applied to a cell of that column; the error names this column when every
\* column before it has a declaration and is dropped or packs without error.
C11_ArgumentRequired ==
    mode = "transform" =>
        \A k \in Argless :
            /\ pc = "raised" /\ packed = <<>> /\ IsRaise(result)
            /\ \A a \in 1..Len(applied) : applied[a][1] # df[k].name
            /\ CleanBefore(k) => result = NeedsArgument(k)

\* the first column was packed, the second is a date column without a format
C11_Witness ==
    /\ mode = "transform" /\ pc = "raised" /\ Len(df) = 2 /\ Rows(df) = 2
    /\ Argless = {2} /\ col_types[df[2].name] = Bare("date")
    /\ result = NeedsArgument(2)
    /\ applied = Applications(df[1].name, 2)

\* the columns declared to transform with a type that has no packer
UnpackedDeclared ==
    {k \in 1..Len(df) : /\ df[k].name \in DOMAIN col_types
                        /\ col_types[df[k].name].type \in Unpacked}
\* the columns the schema file of upload gives a type that has no packer
UnpackedInSchema ==
    {k \in 1..Len(df) : /\ df[k].name \in DOMAIN schema.cols
                        /\ schema.cols[df[k].name].type \in Unpacked}
InvalidType(k) == RaiseCol("has an invalid type", df[k].name)

\* upload's check of the columns lets df through
ColumnsAccepted == kwargs.drop \/ \A k \in 1..Len(df) : df[k].name \in DOMAIN schema.cols

\* upload skips column j, or packs every entry of it without error
UploadPacksCleanly(j) ==
    \/ df[j].name \notin DOMAIN schema.cols
    \/ /\ schema.cols[df[j].name].type \in DOMAIN FIELD_TYPES
       /\ FIELD_TYPES[schema.cols[df[j].name].type] # "none"
       /\ \A i \in 1..Rows(df) :
             ~IsRaise(ApplyPack(FIELD_TYPES[schema.cols[df[j].name].type],
                                schema.cols[df[j].name].args, df[j].cells[i]))

\* no value of df has reached a packed dataframe, a record or a request
NothingEmitted == packed = <<>> /\ records = <<>> /\ posts = <<>>

WithoutFid == {k \in 1..Len(packed) : packed[k].name \notin DOMAIN fids}

\* C13: when a column of the packed dataframe has no entry in fids, payloads
\* raises the error naming such a column, the first one in column order,
\* whatever the rows and the size are: it returns no batch and no record.
C13_MissingFidRaises ==
    (mode = "payloads" /\ WithoutFid # {}) =>
        /\ pc = "raised"
        /\ "batches" \notin DOMAIN result
        /\ \E k \in WithoutFid :
              /\ result = RaiseCol("not defined in fids", packed[k].name)
              /\ \A j \in WithoutFid : k <= j

\* two packed columns with rows, the second without a field id, and a size on
\* which the batching itself would have raised
C13_Witness ==
    /\ mode = "payloads" /\ pc = "raised" /\ Len(packed) = 2 /\ Rows(packed) = 2
    /\ WithoutFid = {2} /\ size = 0
    /\ result = RaiseCol("not defined in fids", packed[2].name)

\* the batches of len records for a size n: how many, and the rows of batch j
NumBatches(len, n) == IF n < 1 THEN 0 ELSE (len + n - 1) \div n
BatchOf(recs, n, j) ==
    SubSeq(recs, (j - 1) * n + 1, IF j * n < Len(recs) THEN j * n ELSE Len(recs))

\* the status is one raise_for_status does not raise on
Accepted(status) == status < 400

\* C14: when upload returns without raising, the requests it posted are the
\* batches of the record list, each once and in batch order, addressed to the
\* table of the schema, and every one of them got a status that
\* raise_for_status accepts.
C14_ReturnMeansAllPosted ==
    (mode = "upload" /\ pc = "done") =>
        /\ Len(posts) = NumBatches(Len(records), size)
        /\ \A j \in 1..Len(posts) :
              posts[j] = [to |-> schema.dbid, data |-> BatchOf(records, size, j)]
        /\ Len(statuses) = Len(posts)
        /\ \A j \in 1..Len(statuses) : Accepted(statuses[j])

\* three records posted in two requests
C14_Witness ==
    /\ mode = "upload" /\ pc = "done" /\ size = 2
    /\ Len(records) = 3 /\ Len(posts) = 2 /\ statuses = <<200, 200>>

\* a refused request is the last one, and upload has raised on it
RefusedIsLast ==
    \A j \in 1..Len(statuses) :
        ~Accepted(statuses[j]) =>
            j = Len(statuses) /\ pc = "raised" /\ result = Raise("HTTPError")

\* request j carries batch j: no batch is posted twice, none out of order
OneRequestPerBatch ==
    /\ Len(posts) = Len(statuses)
    /\ Len(posts) <= NumBatches(Len(records), size)
    /\ \A j \in 1..Len(posts) : posts[j].data = BatchOf(records, size, j)

\* C15: in upload a status that raise_for_status raises on ends the run: the
\* refused request is the last one and is not repeated, what was posted before
\* it stays posted, nothing is posted once upload has raised, and request j
\* always carries batch j, so that each batch is sent at most once.
C15_RefusalEndsTheRun ==
    /\ [](mode = "upload" => RefusedIsLast /\ OneRequestPerBatch)
    /\ [][mode = "upload" =>
             /\ Len(posts') >= Len(posts)
             /\ SubSeq(posts', 1, Len(posts)) = posts
             /\ pc = "raised" => posts' = posts]_vars

\* the second of three batches was refused: the first stays posted, the third
\* is never sent
C15_Witness ==
    /\ mode = "upload" /\ pc = "raised" /\ size = 1 /\ Len(records) = 3
    /\ Len(posts) = 2 /\ statuses = <<200, 400>>
    /\ result = Raise("HTTPError")

\* C16 as stated: upload(df, schema, info) never stops at a payload that
\* failed, and returns a list with one entry per payload, entry i being what
\* payload i came back with.
C16_EveryOutcomeReturned ==
    mode = "send" =>
        /\ pc # "raised"
        /\ pc = "returned" =>
              /\ Len(responses) = Len(result.batches)
              /\ Len(posts) = Len(result.batches)
              /\ \A i \in 1..Len(responses) : responses[i] = statuses[i]


-----------------------------------------------------------------------------
(* headers' properties, under SpecHeaders *)

Created == mode = "headers" /\ call.f = "create"

\* C17: create changes the header file only when there was none, or when
\* the one there was invalid and repair was true; so the same create called
\* again leaves the file as it is, and after a create that found no header
\* file exists() is true.
C17_CreateWritesOnlyWhenDue ==
    Created =>
        /\ header_file # call.before =>
              \/ call.before = Absent
              \/ valid(call.before) = Bool(FALSE) /\ call.repair
        /\ create(header_file, call.interactive, call.repair, call.host, call.user,
                  call.auth, call.typed).file = header_file
        /\ call.before = Absent => exists(header_file) = Bool(TRUE)

\* a create that repaired an invalid header file
C17_Witness ==
    /\ Created
    /\ call.before # Absent
    /\ valid(call.before) = Bool(FALSE)
    /\ call.repair
    /\ header_file # call.before
    /\ valid(header_file) = Bool(TRUE)

\* C18: valid returns False when the directory has no header file, and
\* returns True only for a file with exactly the three keys, a well-formed
\* hostname and a well-formed token.
C18_MissingFileIsInvalid ==
    (mode = "headers" /\ call.f = "valid") =>
        /\ call.before = Absent => result = Bool(FALSE)
        /\ result = Bool(TRUE) =>
              /\ DOMAIN call.before = HeaderKeys
              /\ MatchesHost(call.before["QB-Realm-Hostname"])
              /\ MatchesToken(call.before["Authorization"])


-----------------------------------------------------------------------------
(* profiles' properties, under SpecProfiles *)

\* the header that the arguments last supplied for a profile lead to
Derived(given, k) ==
    CASE k = "QB-Realm-Hostname" -> Str(given.host.str \o DotQuickbaseCom)
      [] k = "User-Agent" -> given.user
      [] k = "Authorization" ->
            Str(TokenPrefix(IF given.temp_token THEN <<"T", "E", "M", "P">>
                            ELSE <<"U", "S", "E", "R">>) \o given.auth.str)
Given(given, k) ==
    CASE k = "QB-Realm-Hostname" -> given.host # None
      [] k = "User-Agent" -> given.user # None
      [] k = "Authorization" -> given.auth # None

\* C19: after any sequence of set_profile calls on a profile, each of its
\* three stored headers holds the value derived from the most recent call
\* that supplied host, user or auth; a later call that leaves an argument
\* out does not override it, User-Agent included.
C19_UnspecifiedKeepsStored ==
    (mode = "profiles" /\ call.f = "set_profile") =>
        \A k \in HeaderKeys :
            Given(supplied[call.profile], k) =>
                /\ k \in DOMAIN _get_headers(profile_files, call.profile)
                /\ _get_headers(profile_files, call.profile)[k]
                     = Derived(supplied[call.profile], k)

\* C20: list_profiles returns exactly the names of the profiles set and not
\* deleted since, each once; _del_profile of a name that is not stored
\* changes nothing and does not raise.
C20_ListIsTheStore ==
    /\ (mode = "profiles" /\ call.f = "list_profiles") =>
          /\ {result[i] : i \in DOMAIN result} = DOMAIN supplied
          /\ Len(result) = Cardinality(DOMAIN supplied)
    /\ (/\ mode = "profiles" /\ call.f = "_del_profile"
        /\ _get_profile_path(call.profile) \notin DOMAIN call.before) =>
          /\ profile_files = call.before
          /\ result = None


-----------------------------------------------------------------------------
(* the schema files' properties, under SpecSchemas *)

\* the names a call of add_schema_args or set_schema_args was given
NamesOf(fields) == IF IsNames(fields) THEN fields.list ELSE fields.tuple
IsNamed(n, names) == \E i \in DOMAIN names : names[i] = n

\* C21: add_schema_args on an existing schema leaves each named field's args
\* as its previous args united with the new arguments, the new ones
\* overriding, and leaves the dbid, every field's id and type and the args
\* of every field not named as they were; set_schema_args differs only in
\* replacing the named fields' args by exactly the new arguments.
C21_SchemaArgsStored ==
    (/\ mode = "schemas"
     /\ call.f \in {"add_schema_args", "set_schema_args"}
     /\ call.before # Absent
     /\ ~IsNames(call.before.fields)
     /\ \A i \in DOMAIN NamesOf(call.fields) :
           NamesOf(call.fields)[i] \in DOMAIN call.before.fields) =>
        /\ result = None
        /\ table_file.dbid = call.before.dbid
        /\ DOMAIN table_file.fields = DOMAIN call.before.fields
        /\ \A n \in DOMAIN call.before.fields :
              IF IsNamed(n, NamesOf(call.fields))
              THEN /\ table_file.fields[n].id = call.before.fields[n].id
                   /\ table_file.fields[n].type = call.before.fields[n].type
                   /\ table_file.fields[n].args =
                         IF call.f = "add_schema_args"
                         THEN Appended(call.before.fields[n], call.arguments)
                         ELSE call.arguments
              ELSE table_file.fields[n] = call.before.fields[n]

-----------------------------------------------------------------------------
(* upload's order of work, under Spec *)

\* the columns of df on which upload's packing fails
Failing == {j \in 1..Len(df) : ~UploadPacksCleanly(j)}
\* the columns of df that the schema knows, as upload packs them
PackedInFull ==
    \A j \in 1..Len(df) :
        df[j].name \in DOMAIN schema.cols =>
            \E k \in 1..Len(packed) :
                packed[k] = Column(df[j].name,
                                   PackedWith(FIELD_TYPES[schema.cols[df[j].name].type],
                                              schema.cols[df[j].name].args, df[j].cells))

\* C22: in upload a request is sent only after every column of df was
\* checked against the schema and every cell was packed. When the check of
\* the columns fails, or a packer raises on a cell of a column, upload
\* raises and no request has been sent; the packer's error is re-raised
\* with the column's name, its declared type and its arguments in front.
C22_NoRequestBeforePacked ==
    mode = "upload" =>
        /\ ~ColumnsAccepted =>
              /\ pc = "raised" /\ posts = <<>>
              /\ result = [raised |-> "Exception", cols |-> UnknownColumns(df, schema.cols, 1)]
        /\ (ColumnsAccepted /\ Failing # {}) =>
              /\ pc \in {"checked", "raised"} /\ posts = <<>>
              /\ pc = "raised" =>
                    \A j \in Failing :
                        (\A i \in 1..(j - 1) : i \notin Failing) =>
                            /\ result.col = df[j].name
                            /\ call = Failed(df[j].name, schema.cols[df[j].name])
        /\ posts # <<>> => ColumnsAccepted /\ Failing = {} /\ PackedInFull

\* upload packed a first column and raised on a cell of the second one
C22_Witness ==
    /\ mode = "upload" /\ pc = "raised" /\ Len(df) = 2 /\ Rows(df) = 2
    /\ ColumnsAccepted /\ Failing = {2}
    /\ df[1].name \in DOMAIN schema.cols
    /\ call = Failed(df[2].name, Info("9", "duration", Hours))
    /\ posts = <<>>


-----------------------------------------------------------------------------
(* further properties of the packers, under SpecPack *)

\* C24: for a raw value that is not null and that int() accepts,
\* _pack_duration with a unit other than 'seconds' and 'milliseconds' raises
\* and returns no packed value; no default unit is used instead.
C24_UnknownUnitRaises ==
    (/\ Returned /\ call.f = "_pack_duration"
     /\ ~isna(call.x) /\ ~IsRaise(int(call.x))
     /\ call.unit \notin {"seconds", "milliseconds"}) =>
        result = Raise("Exception")

\* 8.3 with the unit 'hours'
C24_Witness ==
    /\ Returned /\ call.f = "_pack_duration" /\ call.x = Num(83)
    /\ call.unit = "hours" /\ result = Raise("Exception")

\* C25: a raw value that is not null and of the wrong type is not turned
\* into None or a default: _pack_date and _pack_datetime raise for one that
\* is neither a datetime nor a str, and _pack_phonenum with a template raises
\* for one that is not a str.
C25_WrongTypeRaises ==
    (Returned /\ ~isna(call.x)) =>
        /\ (call.f \in {"_pack_date", "_pack_datetime"} /\ ~IsDt(call.x) /\ ~IsStr(call.x))
              => result = Raise("Exception")
        /\ (call.f = "_pack_phonenum" /\ ~IsStr(call.x)) => result = Raise("Exception")

\* the number 5 given to _pack_date
C25_Witness ==
    /\ Returned /\ call.f = "_pack_date" /\ call.x = Whole(5)
    /\ result = Raise("Exception")

\* C26: with the unit 'seconds' _pack_duration packs a number d to
\* int(d) * 1000, a multiple of 1000, because it coerces before it converts
\* the unit, while the duration parser of src/parsers.py multiplies first
\* and truncates afterwards, packing d to int(d * 1000).
C26_CoercionOrder ==
    (Returned /\ IsNum(call.x) /\ call.unit = "seconds") =>
        /\ call.f = "_pack_duration" =>
              /\ result = [value |-> Whole(Trunc(call.x) * 1000)]
              /\ result.value.whole % 1000 = 0 /\ result.value.tenth = 0
        /\ call.f = "parse_duration" =>
              result = [value |-> Whole(Trunc(TimesThousand(call.x)))]

\* 8.3 seconds through the parser of src/parsers.py
C26_Witness ==
    /\ Returned /\ call.f = "parse_duration" /\ call.x = Num(83)
    /\ call.unit = "seconds" /\ result = [value |-> Whole(8300)]

\* s is as long as x and holds x's characters wherever format has '#'
AgreeAtHashes(s, x, format) ==
    /\ Len(s) = Len(x)
    /\ \A i \in 1..Len(x) : (i <= Len(format) /\ format[i] = "#") => s[i] = x[i]

\* C23: under one template, two raw strings of equal length that hold the
\* same characters at the template's '#' positions pack to the same result,
\* whatever they hold at the literal positions; a literal that differs does
\* not by itself cause an error.
C23_LiteralsIgnored ==
    (Returned /\ call.f = "_pack_phonenum" /\ IsStr(call.x)) =>
        \A s \in PhoneStrs :
            AgreeAtHashes(s, call.x.str, call.format) =>
                _pack_phonenum(Str(s), call.format) = result

\* a phone value packed from a string that has a twin with another literal
C23_Witness ==
    /\ Returned /\ call.f = "_pack_phonenum" /\ IsStr(call.x)
    /\ IsDict(result)
    /\ \E s \in PhoneStrs :
          /\ s # call.x.str
          /\ AgreeAtHashes(s, call.x.str, call.format)

\* payloads got as far as its loop: every column has a field id and no two
\* columns share one
Assembled(d, f) == FirstMissing(d, f) = 0 /\ ~(Rows(d) > 0 /\ Collides(d, f))

\* C27: with a negative size, payloads returns the empty list of batches and
\* upload returns without a request, neither raising, whatever the records
\* are; with a size of 0 both raise (ValueError, from range).
C27_NegativeSizeOmitsAll ==
    /\ (mode = "payloads" /\ Assembled(packed, fids)) =>
          /\ size < 0 => pc = "done" /\ result = [batches |-> <<>>]
          /\ size = 0 => pc = "raised" /\ result = Raise("ValueError")
    /\ (mode = "upload" /\ kwargs.has_size) =>
          /\ (kwargs.size < 0 /\ pc \in {"posting", "done"}) =>
                size = kwargs.size /\ posts = <<>> /\ statuses = <<>>
          /\ (kwargs.size < 0 /\ pc = "raised") => Len(records) = 0
          /\ kwargs.size = 0 => pc \notin {"posting", "done"} /\ posts = <<>>
          /\ (kwargs.size = 0 /\ pc = "raised" /\ call = NoCall
                  /\ "cols" \notin DOMAIN result) => result = Raise("ValueError")

\* upload has returned with two records built and no request sent
C27_Witness ==
    /\ mode = "upload" /\ pc = "done" /\ kwargs.has_size /\ kwargs.size = -1
    /\ Len(records) = 2 /\ posts = <<>> /\ result = None

\* the record rec holds the values of row i of d, and only them, under their
\* field ids
BuiltFromRow(rec, d, f, i) ==
    /\ DOMAIN rec = {f[d[k].name] : k \in {j \in 1..Len(d) : d[j].cells[i] # None}}
    /\ \A k \in 1..Len(d) : d[k].cells[i] # None => rec[f[d[k].name]] = d[k].cells[i]

\* recs is one record per row of d, in the order of the rows
OnePerRow(recs, d, f) ==
    /\ Len(recs) = Rows(d)
    /\ \A i \in 1..Rows(d) : BuiltFromRow(recs[i], d, f, i)

\* C30: the records built from a packed dataframe are one per row, record i
\* from row i only; a row whose values are all null gives an empty record, so
\* there are as many records as rows. Checked on the records of upload and on
\* the batches of payloads taken together.
C30_OneRecordPerRow ==
    /\ (mode = "upload" /\ pc \in {"posting", "done"}) => OnePerRow(records, packed, fids)
    /\ (mode = "payloads" /\ pc = "done" /\ size >= 1) =>
          OnePerRow(Flatten(result.batches), packed, fids)

\* three records of which the second is empty: its row is null in both columns
C30_Witness ==
    /\ mode = "upload" /\ pc = "done" /\ Len(packed) = 2 /\ Rows(packed) = 3
    /\ Len(records) = 3 /\ DOMAIN records[2] = {}
    /\ DOMAIN records[1] # {} /\ DOMAIN records[3] # {}

\* a call of upload(df, schema, info) that full_transform has not ended
UploadWentOn == call # NoCall /\ call.f = "upload" /\ ~(mode = "full" /\ pc = "raised")

====
